---------------------------- MODULE Spec2Model ----------------------------
(***************************************************************************)
(* A model of the settings package of LobaDK/python_modules:               *)
(*   - the change-tracking containers of settings/subclasses.py            *)
(*     (BaseWrapper, DictWrapper, ListWrapper, SetWrapper, DotDict),       *)
(*   - the dictionary-backed SettingsManager of                            *)
(*     settings/settings_manager.py,                                       *)
(*   - the recursive reconciliation (sanitize) of settings/base.py.        *)
(*                                                                         *)
(* Representation.                                                         *)
(*   A Python string is modelled as the sequence of its maximal dot-free   *)
(*   segments: "a" is <<"a">>, "a.b" is <<"a","b">>, "" is <<"">>.  With   *)
(*   this, f"{x}.{y}" is x \o y and str.split(".") lists the segments.     *)
(*   A tree of Python objects is a function from paths (sequences of       *)
(*   keys, <<>> being the root) to nodes.  A node records the Python type  *)
(*   of the object (t), its value when it is a scalar (v), for a mapping   *)
(*   its keys in insertion order (ks), and for a wrapper the callback list *)
(*   it holds: a list object is created by BaseWrapper.__init__ of one     *)
(*   wrapper, its owner, and is otherwise only handed down by _wrap to the *)
(*   wrappers made below that owner, so the identity of the list a wrapper *)
(*   holds is the number of levels up to its owner (up, 0 for the owner    *)
(*   itself), and the owner's node carries the content of the list (cbs).  *)
(*                                                                         *)
(* Specifications.                                                         *)
(*   Spec          the DotDict: set, delete and read on its mappings at    *)
(*                 any depth, and add_callback;                            *)
(*   SpecManager   the managers of settings/settings_manager.py,           *)
(*                 SettingsManager and SettingsManagerAsDict (with the     *)
(*                 methods of its base SettingsManagerBase), on a json or  *)
(*                 an ini file: the mapping interface, the setter of the   *)
(*                 data, load, save, sanitize_settings and                 *)
(*                 load_from_default;                                      *)
(*   SpecSanitize  sanitize_settings of settings/base.py, called on a      *)
(*                 settings tree and a default tree, up to MaxPasses       *)
(*                 times in a row;                                         *)
(*   SpecSession   the SettingsManagerBase of settings/base.py on a json   *)
(*                 or an ini file: _first_time_load, save, load, changes   *)
(*                 of the settings, the decorators of                      *)
(*                 settings/decorators.py and the autosave() block;        *)
(*   SpecConstruct the constructors of base.py and settings_manager.py and *)
(*                 set_file_paths of utils.py: the check of the paths,     *)
(*                 the choice of the format and the look at the file;      *)
(*   SpecRegistry  the DotDict with add_callback and remove_callback, and  *)
(*                 load() of base.py as the assignment of _store on a      *)
(*                 DotDict that it is;                                     *)
(*   SpecViews     the list views and set views with their _data, and      *)
(*                 to_dict;                                                *)
(*   SpecFlags     the session with the two flags of sanitizing that       *)
(*                 __init__ of base.py stores;                             *)
(*   SpecRoundTrip the session with a str and an int as changed values,    *)
(*                 saved and loaded again;                                 *)
(*   SpecPersist   the session with keys added under a section that the    *)
(*                 defaults lack, saved and loaded;                        *)
(*   SpecExit      the session with the save hook of atexit, from          *)
(*                 __init__ to the exit of the process;                    *)
(*   SpecInPlace   the list views and set views with operations they       *)
(*                 inherit from list and set;                              *)
(*   SpecRaising   the DotDict with a callback that raises.                *)
(*   Each keeps the variables of the others at a fixed value.              *)
(*                                                                         *)
(* The file system.  open, and the read or write that follows it, can      *)
(* raise OSError in any operation (IO); a file is modelled by the document *)
(* a reader gets from it, as no file (NoFile) or as a file of no bytes     *)
(* (EmptyFile).                                                            *)
(*                                                                         *)
(* What the source leaves open.                                            *)
(*   settings_manager.py names MutableMapping and both modules import      *)
(*   IniFormatError, which settings/exceptions.py does not define; the     *)
(*   classes are modelled as their bodies are written, IniFormatError as   *)
(*   an exception class of its own.                                        *)
(*   The methods of base.py read _auto_sanitize, _default_settings_as_dict *)
(*   and _autosave_enabled, which __init__ does not set, and are modelled  *)
(*   with these as attributes of the session; _autosave_enabled has either *)
(*   value when _first_time_load is called.                                *)
(*   SettingsManagerBase of base.py derives from DotDict and never calls   *)
(*   DotDict.__init__, so on the class as written the first assignment of  *)
(*   an attribute in __init__ ends in RecursionError.  The session is      *)
(*   modelled with its attributes as plain attributes; SpecRegistry        *)
(*   follows the other reading, the DotDict part initialised, where an     *)
(*   assignment of _store is a set on the root.                            *)
(*   enable_autosave, disable_autosave, the callback that saves a change   *)
(*   and the autosave() context manager are used by decorators.py and by   *)
(*   tests/test_settings_manager.py and defined in no source file; they    *)
(*   are modelled from the specification of the package: the two methods   *)
(*   set _autosave_enabled, a change is saved when _autosave_on_change and *)
(*   _autosave_enabled hold, and the block disables autosave on entry and, *)
(*   on leaving, puts it back and calls save() once.                       *)
(***************************************************************************)
EXTENDS Integers, Sequences, FiniteSets, TLC

VARIABLES
    data,        \* DotDict: the tree of objects reachable from the root's _data
    calls,       \* the callbacks invoked by the last operation, in order
    last,        \* the last operation and how it ended
    list_data,   \* the _data of every list view and set view of the tree
    sm_class,          \* the class of the manager
    sm_format,         \* its _format
    sm_data,           \* the dict _data refers to, or the one __internal_data encodes
    default_settings,  \* the dict _default_settings or _default_settings_as_dict refers to
    aliases,           \* the paths at which _data holds the very object of _default_settings
    file,              \* the settings file: the document it holds
    save_on_change,    \* _save_on_change, _autosave_on_change
    sanitize,          \* _sanitize, _auto_sanitize
    sm_last,           \* the last operation on the manager and how it ended
    store,                     \* sanitizing: the dict _store refers to
    default_settings_as_dict,  \* sanitizing: the dict of the defaults
    shared,                    \* where _store holds the very object of the defaults
    plan,                      \* what the last pass of sanitize_settings planned
    san_err,                   \* the exception that ended the last pass
    passes,                    \* the passes of sanitize_settings made
    before,                    \* _store and the defaults as the last pass found them
    file_format,         \* session: _format
    auto_sanitize,       \* session: _auto_sanitize
    auto_sanitize_on_load,  \* session: _auto_sanitize_on_load
    auto_sanitize_on_save,  \* session: _auto_sanitize_on_save
    autosave_on_change,  \* session: _autosave_on_change
    autosave_enabled,    \* session: _autosave_enabled
    disk,                \* session: the settings file, the document it holds
    block,               \* session: the autosave() block, open or last left
    session_last,        \* session: the last operation and how it ended
    construction,        \* a call of a constructor: its arguments and how far it got
    process              \* the process: the save hooks of atexit, the calls of save()

dotdictVars == <<data, calls, last, list_data>>
managerVars == <<sm_class, sm_format, sm_data, default_settings, aliases, file,
                 save_on_change, sanitize, sm_last>>
sanitizeVars == <<store, default_settings_as_dict, shared, plan, san_err,
                  passes, before>>
sessionVars == <<file_format, auto_sanitize, auto_sanitize_on_load,
                 auto_sanitize_on_save, autosave_on_change, autosave_enabled,
                 disk, block, session_last, construction, process>>
vars == <<dotdictVars, managerVars, sanitizeVars, sessionVars>>

----------------------------------------------------------------------------
(* Bounds of the model.                                                    *)

MaxNodes == 3       \* most objects below the root of a tree
MaxRegistry == 3    \* longest callback list
MaxEntries == 3     \* most top-level keys of a settings tree
MaxPasses == 2      \* most passes of sanitize_settings in a row

----------------------------------------------------------------------------
(* Sequences and paths.                                                    *)

Range(s) == {s[i] : i \in DOMAIN s}

IsPrefix(p, q) == Len(p) <= Len(q) /\ SubSeq(q, 1, Len(p)) = p

Suffix(p, q) == SubSeq(q, Len(p) + 1, Len(q))

RECURSIVE Without(_, _)
Without(s, x) ==
    IF s = <<>> THEN <<>>
    ELSE IF Head(s) = x THEN Without(Tail(s), x)
    ELSE <<Head(s)>> \o Without(Tail(s), x)

----------------------------------------------------------------------------
(* Nodes and trees.                                                        *)

Node(t, v, ks) == [t |-> t, v |-> v, ks |-> ks, up |-> 0, cbs |-> <<>>]
Scalar(v) == Node("scalar", v, <<>>)
Mapping(ks) == Node("dict", "", ks)
Listing(ks) == Node("list", "", ks)

PlainContainers == {"dict", "list", "set"}
Wrappers == {"DotDict", "DictWrapper", "ListWrapper", "SetWrapper"}
MappingViews == {"DotDict", "DictWrapper"}

\* the tree holding only a scalar, the empty dict, a dict of one entry, a list of one item
Leaf(v) == (<<>> :> Scalar(v))
EmptyDict == (<<>> :> Mapping(<<>>))
Nest(top, k, val) ==
    [q \in {<<>>} \cup {<<k>> \o r : r \in DOMAIN val} |->
        IF q = <<>> THEN top ELSE val[Tail(q)]]
DictOf(k, val) == Nest(Mapping(<<k>>), k, val)
ListOf(val) == Nest(Listing(<<(<<"0">>)>>), <<"0">>, val)

Size(tree) == Cardinality(DOMAIN tree) - 1

Under(tree, p) == {q \in DOMAIN tree : IsPrefix(p, q)}

\* the object at path p, as a tree of its own
Subtree(tree, p) == [r \in {Suffix(p, q) : q \in Under(tree, p)} |-> tree[p \o r]]

\* the tree without the object at path p (the parent's key list is not touched)
Prune(tree, p) == [q \in (DOMAIN tree) \ Under(tree, p) |-> tree[q]]

\* the tree with sub hung at path p (the parent's key list is not touched)
Graft(tree, p, sub) ==
    [q \in ((DOMAIN tree) \ Under(tree, p)) \cup {p \o r : r \in DOMAIN sub} |->
        IF IsPrefix(p, q) THEN sub[Suffix(p, q)] ELSE tree[q]]

\* what a reader of the slot sees: the type and value of the object there
Observe(tree, slot) ==
    IF slot \in DOMAIN tree THEN [t |-> tree[slot].t, v |-> tree[slot].v]
    ELSE [t |-> "absent", v |-> ""]

\* dict.__setitem__ of the mapping at p: an existing key keeps its place
DictStore(tree, p, k, sub) ==
    LET grafted == Graft(tree, p \o <<k>>, sub)
    IN [grafted EXCEPT ![p].ks =
            IF k \in Range(@) THEN @ ELSE Append(@, k)]

\* dict.__delitem__ of the mapping at p, for a key that is present
DictRemove(tree, p, k) ==
    LET pruned == Prune(tree, p \o <<k>>)
    IN [pruned EXCEPT ![p].ks = Without(@, k)]

HasKey(tree, p, k) == (p \o <<k>>) \in DOMAIN tree

\* the owner of the callback list the wrapper at p holds, and that list
Owner(tree, p) == SubSeq(p, 1, Len(p) - tree[p].up)
CallbacksOf(tree, p) == tree[Owner(tree, p)].cbs

----------------------------------------------------------------------------
(* settings/subclasses.py: the change-tracking containers.                 *)

KA == <<"a">>
KB == <<"b">>
Keys == {KA, KB}
Scalars == {"v1"}
Registration == <<"cb1", "cb2">>
Callbacks == Range(Registration)

\* the values a caller hands to the container: plain Python literals
RawValues ==
    {Leaf(v) : v \in Scalars}
        \cup {EmptyDict, DictOf(KA, EmptyDict), ListOf(EmptyDict)}

\* the dictionaries DotDict(...) is constructed from
InitialData == {EmptyDict, DictOf(KA, EmptyDict), DictOf(KA, Leaf("v1"))}

WrappedType(t) ==
    CASE t = "dict" -> "DictWrapper"
      [] t = "list" -> "ListWrapper"
      [] t = "set" -> "SetWrapper"
      [] OTHER -> t

\* The objects of val that _wrap turns into wrappers.  _wrap wraps the value
\* itself when it is a container; DictWrapper keeps its dict as it is, while
\* ListWrapper.__init__ wraps every item of its list in turn.  So an object is
\* wrapped exactly when it is a container and everything above it is a list.
WrappedPaths(val) ==
    {q \in DOMAIN val :
        /\ val[q].t \in PlainContainers
        /\ \A n \in 0..(Len(q) - 1) : val[SubSeq(q, 1, n)].t = "list"}

\* _wrap(value) called by the view at p, for the value to be stored under
\* p.  BaseWrapper.__init__ keeps "callbacks if callbacks else []": a wrapper
\* made by a view whose list is non-empty holds that very list; one made while
\* the list is empty gets a new list of its own, and so, in turn, do the
\* wrappers that one makes.
Wrap(val, tree, p) ==
    LET shares == CallbacksOf(tree, p) # <<>>
        wp == WrappedPaths(val)
    IN [q \in DOMAIN val |->
            IF q \in wp
            THEN [val[q] EXCEPT !.t = WrappedType(@),
                                !.up = IF shares THEN tree[p].up + 1 + Len(q) ELSE 0]
            ELSE val[q]]

\* BaseWrapper._notify: every callback of the list, in list order; each one
\* runs against the tree as it is at the time of the call
Notify(cbs, saw) == [n \in DOMAIN cbs |-> [cb |-> cbs[n], saw |-> saw]]

NoError == "none"

\* DictWrapper.__setitem__ / __setattr__ on the view at p
DictWrapperSet(tree, p, k, val) ==
    LET stored == DictStore(tree, p, k, Wrap(val, tree, p))
    IN [data |-> stored, err |-> NoError,
        calls |-> Notify(CallbacksOf(stored, p), Observe(stored, p \o <<k>>))]

\* __delitem__ without the lookup that raises: the callbacks run although
\* nothing was deleted
DictWrapperDelUnchecked(tree, p, k) ==
    [data |-> IF HasKey(tree, p, k) THEN DictRemove(tree, p, k) ELSE tree,
     err |-> NoError,
     calls |-> Notify(CallbacksOf(tree, p), Observe(tree, p \o <<k>>))]

\* DictWrapper.__delitem__ / __delattr__ on the view at p
DictWrapperDel(tree, p, k) ==
    IF ~HasKey(tree, p, k)
    THEN [data |-> tree, err |-> "KeyError", calls |-> <<>>]
    ELSE LET removed == DictRemove(tree, p, k)
         IN [data |-> removed, err |-> NoError,
             calls |-> Notify(CallbacksOf(removed, p), Observe(removed, p \o <<k>>))]

\* DictWrapper.__getitem__ (via = "item") and __getattr__ (via = "attr")
DictWrapperGet(tree, p, k, via) ==
    [data |-> tree, calls |-> <<>>,
     err |-> IF HasKey(tree, p, k) THEN NoError
             ELSE IF via = "attr" THEN "AttributeError" ELSE "KeyError"]

\* the wrappers among the values of the root's _data, in the order of the dict
TopWrappers(tree) ==
    LET ks == tree[<<>>].ks
        RECURSIVE pick(_)
        pick(n) ==
            IF n > Len(ks) THEN <<>>
            ELSE IF tree[<<ks[n]>>].t \in Wrappers
                 THEN <<(<<ks[n]>>)>> \o pick(n + 1)
                 ELSE pick(n + 1)
    IN pick(1)

\* BaseWrapper.add_callback of the wrappers at ps, one after the other
RECURSIVE AppendEach(_, _, _)
AppendEach(tree, ps, cb) ==
    IF ps = <<>> THEN tree
    ELSE AppendEach([tree EXCEPT ![Owner(tree, Head(ps))].cbs = Append(@, cb)],
                    Tail(ps), cb)

\* DotDict.add_callback: the root's list, then add_callback of every wrapper
\* among the root's values
DotDictAddCallback(tree, cb) ==
    [data |-> AppendEach(tree, <<(<<>>)>> \o TopWrappers(tree), cb),
     err |-> NoError, calls |-> <<>>]

\* a plain dict reached through a view (DictWrapper.__getitem__ hands out
\* self._data[key] as it is): the built-in dict stores and deletes, nothing else
PlainDictSet(tree, p, k, val) ==
    [data |-> DictStore(tree, p, k, val), err |-> NoError, calls |-> <<>>]

PlainDictDel(tree, p, k) ==
    IF ~HasKey(tree, p, k)
    THEN [data |-> tree, err |-> "KeyError", calls |-> <<>>]
    ELSE [data |-> DictRemove(tree, p, k), err |-> NoError, calls |-> <<>>]

----------------------------------------------------------------------------
(* The DotDict as a state machine.                                         *)

\* what is recorded of an operation: its name, the view and key of the slot
\* it changed (when it changed one), the callback it was given (when it was
\* given one) and the exception it raised (when it raised one)
Op(name, p, k, cb) == [op |-> name, p |-> p, k |-> k, cb |-> cb, err |-> NoError]

NoKey == <<"">>
NoCallback == ""

\* the _data of the list views and set views is not followed
NoListData == <<>>

\* DotDict.__init__: the dict is kept as it is, with a new, empty callback list
Root(initial) == [initial EXCEPT ![<<>>].t = "DotDict"]

\* no settings manager is under study
NoManager ==
    /\ sm_class = "none"
    /\ sm_format = "none"
    /\ sm_data = EmptyDict
    /\ default_settings = EmptyDict
    /\ aliases = {}
    /\ file = EmptyDict
    /\ save_on_change = FALSE
    /\ sanitize = FALSE
    /\ sm_last = [op |-> "none", err |-> NoError, cause |-> NoError]

NoPlan == [remove |-> <<>>, add |-> <<>>]

\* no autosave() block has been entered
NoBlock == [open |-> FALSE, enabled |-> FALSE, saves |-> 0, sets |-> 0]

\* the process is not followed: no hook of atexit, no call of save() counted
NoProcess == [hooks |-> 0, saves |-> 0, built |-> FALSE, exited |-> FALSE]

\* None, and the arguments of a constructor that nobody has called
None == <<>>
NoConstruction ==
    [class |-> "none", path |-> None, read_path |-> None, write_path |-> None,
     format |-> None, asserts |-> TRUE, step |-> "none", err |-> NoError,
     paths |-> <<>>, fmt |-> "none"]

\* the two flags of sanitizing that __init__ stores are not followed
NoFlags ==
    /\ auto_sanitize_on_load = FALSE
    /\ auto_sanitize_on_save = FALSE

\* no session is under study
NoSession ==
    /\ file_format = "none"
    /\ auto_sanitize = FALSE
    /\ NoFlags
    /\ autosave_on_change = FALSE
    /\ autosave_enabled = FALSE
    /\ disk = EmptyDict
    /\ block = NoBlock
    /\ process = NoProcess
    /\ session_last = [op |-> "none", err |-> NoError, cause |-> NoError]
    /\ construction = NoConstruction

\* no sanitizing is under study
NoSanitizing ==
    /\ store = EmptyDict
    /\ default_settings_as_dict = EmptyDict
    /\ shared = {}
    /\ plan = NoPlan
    /\ san_err = NoError
    /\ passes = 0
    /\ before = [store |-> EmptyDict, defaults |-> EmptyDict]

Init ==
    /\ \E initial \in InitialData : data = Root(initial)
    /\ calls = <<>>
    /\ last = Op("init", <<>>, NoKey, NoCallback)
    /\ list_data = NoListData
    /\ NoManager
    /\ NoSanitizing
    /\ NoSession

\* the trees the model follows
Bounded(tree) ==
    /\ Size(tree) <= MaxNodes
    /\ \A q \in DOMAIN tree : Len(tree[q].cbs) <= MaxRegistry

\* the outcome r of an operation becomes the state
Becomes(r, name, p, k, cb) ==
    /\ Bounded(r.data)
    /\ data' = r.data
    /\ calls' = r.calls
    /\ last' = IF r.err = NoError /\ name \in {"set", "del"}
               THEN Op(name, p, k, cb)
               ELSE [Op(name, <<>>, NoKey, cb) EXCEPT !.err = r.err]
    /\ UNCHANGED <<list_data, managerVars, sanitizeVars, sessionVars>>

SetItem(p, k, val) ==
    /\ data[p].t \in MappingViews
    /\ Becomes(DictWrapperSet(data, p, k, val), "set", p, k, NoCallback)

DelItem(p, k) ==
    /\ data[p].t \in MappingViews
    /\ Becomes(DictWrapperDel(data, p, k), "del", p, k, NoCallback)

GetItem(p, k, via) ==
    /\ data[p].t \in MappingViews
    /\ Becomes(DictWrapperGet(data, p, k, via), "get", p, k, NoCallback)

PlainSet(p, k, val) ==
    /\ data[p].t = "dict"
    /\ Becomes(PlainDictSet(data, p, k, val), "set", p, k, NoCallback)

PlainDel(p, k) ==
    /\ data[p].t = "dict"
    /\ Becomes(PlainDictDel(data, p, k), "del", p, k, NoCallback)

\* the callbacks registered at the root
Registered == data[<<>>].cbs

\* each callback is registered once; which of two callbacks comes first makes
\* no difference to the code, so they come in the order of Registration
AddCallback(cb) ==
    /\ cb \notin Range(Registered)
    /\ \A n \in DOMAIN Registration :
         Registration[n] = cb => \A m \in 1..(n - 1) : Registration[m] \in Range(Registered)
    /\ Becomes(DotDictAddCallback(data, cb), "add_callback", <<>>, NoKey, cb)

Next ==
    \/ \E p \in DOMAIN data, k \in Keys, val \in RawValues : SetItem(p, k, val)
    \/ \E p \in DOMAIN data, k \in Keys : DelItem(p, k)
    \/ \E p \in DOMAIN data, k \in Keys, via \in {"item", "attr"} : GetItem(p, k, via)
    \/ \E p \in DOMAIN data, k \in Keys, val \in RawValues : PlainSet(p, k, val)
    \/ \E p \in DOMAIN data, k \in Keys : PlainDel(p, k)
    \/ \E cb \in Callbacks : AddCallback(cb)


Spec == Init /\ [][Next]_vars

----------------------------------------------------------------------------
(* Properties of the DotDict.                                              *)

\* how often the last operation invoked cb
Invoked(cb) == Cardinality({n \in DOMAIN calls : calls[n].cb = cb})

\* the callbacks the last operation invoked, in the order it invoked them
Callers == [n \in DOMAIN calls |-> calls[n].cb]

\* the first occurrences of s, in order
RECURSIVE Distinct(_)
Distinct(s) ==
    IF s = <<>> THEN <<>>
    ELSE <<Head(s)>> \o Distinct(Without(Tail(s), Head(s)))

Mutated == last.op \in {"set", "del"} /\ last.err = NoError

\* C1: a successful set or delete on a mapping at any depth below the root,
\* whether it came with the initial data or was assigned later, invokes
\* every callback registered at the root exactly once.
C1_MutationInvokesEachOnce ==
    Mutated => \A cb \in Range(Registered) : Invoked(cb) = 1

\* C2: once add_callback(cb) has returned, a set on any mapping view that
\* existed before the call, at any depth and whatever the registry held when
\* the view was made, invokes cb exactly once.
C2_AddedCallbackReachesViews ==
    [][last'.op = "add_callback" =>
        \A p \in DOMAIN data : data[p].t \in MappingViews =>
            \A k \in Keys, val \in RawValues :
                LET after == DictWrapperSet(data', p, k, val).calls
                IN Cardinality({n \in DOMAIN after : after[n].cb = last'.cb}) = 1]_vars

\* C3: every view reachable from the root holds the callback list of the
\* root itself, the same object.
C3_OneRegistryObject ==
    \A p \in DOMAIN data : data[p].t \in Wrappers => Owner(data, p) = <<>>

\* C4: after a set on a view, no plain dict, list or set is left anywhere
\* inside the stored value: every container in it is a view.
C4_StoredValueFullyWrapped ==
    (last.op = "set" /\ last.err = NoError /\ data[last.p].t \in MappingViews) =>
        \A q \in Under(data, last.p \o <<last.k>>) : data[q].t \notin PlainContainers

\* C5: deleting or reading a key that a mapping view does not hold raises
\* KeyError (AttributeError for attribute reads), invokes no callback and
\* leaves the tree as it was.
C5_AbsentKeyFailsCleanly ==
    /\ \A p \in DOMAIN data, k \in Keys :
         (data[p].t \in MappingViews /\ ~HasKey(data, p, k)) =>
            /\ DictWrapperDel(data, p, k) =
                 [data |-> data, err |-> "KeyError", calls |-> <<>>]
            /\ DictWrapperGet(data, p, k, "item") =
                 [data |-> data, err |-> "KeyError", calls |-> <<>>]
            /\ DictWrapperGet(data, p, k, "attr") =
                 [data |-> data, err |-> "AttributeError", calls |-> <<>>]
    /\ last.err # NoError => calls = <<>>

\* a delete of an absent key has just failed on a tree with a callback
\* registered and a nested view in it
C5_Witness ==
    /\ last.op = "del" /\ last.err = "KeyError"
    /\ Registered # <<>>
    /\ \E p \in DOMAIN data : p # <<>> /\ data[p].t \in MappingViews
                               /\ CallbacksOf(data, p) # <<>>
                               /\ \E k \in Keys : ~HasKey(data, p, k)

\* C6: a set on a view stores the value first and then invokes every
\* registered callback, in the order of registration, so each callback
\* finds the new value in the tree.
C6_SetStoresThenNotifiesInOrder ==
    (last.op = "set" /\ last.err = NoError /\ data[last.p].t \in MappingViews) =>
        /\ Distinct(Callers) = Distinct(Registered)
        /\ \A n \in DOMAIN calls :
             calls[n].saw = Observe(data, last.p \o <<last.k>>)

----------------------------------------------------------------------------
(* settings/settings_manager.py: SettingsManager, with a JSON file.        *)

KInt1 == <<"int:1">>    \* the key 1, an int
K1 == <<"1">>           \* the key "1", a str

\* json.dump writes every key of an object as a string
JsonKey(k) == IF k = KInt1 THEN K1 ELSE k

\* The document json.dump writes for a tree, as json.load reads it: the
\* members in the order of the dict, every key as a string, and of two
\* members with one name the later value at the earlier place.
RECURSIVE JsonDump(_)
JsonDump(tree) ==
    LET ks == tree[<<>>].ks
        RECURSIVE members(_, _)
        members(doc, n) ==
            IF n > Len(ks) THEN doc
            ELSE members(DictStore(doc, <<>>, JsonKey(ks[n]),
                                   JsonDump(Subtree(tree, <<ks[n]>>))),
                         n + 1)
    IN IF tree[<<>>].t = "dict" THEN members(EmptyDict, 1) ELSE tree

\* no file at the path
NoFile == (<<>> :> Node("absent", "", <<>>))

\* a file of no bytes: what a write leaves that fails after open truncated
\* the file
EmptyFile == (<<>> :> Node("empty", "", <<>>))

\* the classes of settings_manager.py, the formats of the model (yaml and
\* toml are dispatched like json) and what the file system does to an
\* operation: nothing, open raises OSError, or the read or write that follows
\* the open raises OSError
Classes == {"SettingsManager", "SettingsManagerAsDict"}
Formats == {"json", "ini"}
IO == {"ok", "open", "transfer"}

\* valid_ini_format: every top-level value is a dict
ValidIniFormat(tree) ==
    \A n \in DOMAIN tree[<<>>].ks : tree[<<tree[<<>>].ks[n]>>].t = "dict"

\* the value configparser keeps for an option: str(value)
IniValue(sub) ==
    IF sub[<<>>].t = "scalar"
    THEN Leaf(IF sub[<<>>].v = "int:1" THEN "1" ELSE sub[<<>>].v)
    ELSE Leaf("repr")

\* The sections ConfigParser writes for a tree whose top-level values are
\* dicts, as _read_as_ini reads them: section and option names as strings,
\* every value as the string of it.  (A top-level value that is no dict stays:
\* no caller writes such a tree.)
IniDump(tree) ==
    LET ks == tree[<<>>].ks
        section(sub) ==
            LET os == sub[<<>>].ks
                RECURSIVE options(_, _)
                options(doc, n) ==
                    IF n > Len(os) THEN doc
                    ELSE options(DictStore(doc, <<>>, JsonKey(os[n]),
                                           IniValue(Subtree(sub, <<os[n]>>))),
                                 n + 1)
            IN IF sub[<<>>].t = "dict" THEN options(EmptyDict, 1) ELSE sub
        RECURSIVE sections(_, _)
        sections(doc, n) ==
            IF n > Len(ks) THEN doc
            ELSE sections(DictStore(doc, <<>>, JsonKey(ks[n]),
                                    section(Subtree(tree, <<ks[n]>>))),
                          n + 1)
    IN sections(EmptyDict, 1)

\* what _write puts in the file for a tree, as _read gets it back; a
\* ConfigParser without sections writes no byte
Encode(format, tree) ==
    IF format # "ini" THEN JsonDump(tree)
    ELSE IF IniDump(tree) = EmptyDict THEN EmptyFile
    ELSE IniDump(tree)

\* the manager as one record; err is the exception that left the operation
\* under way and cause the exception it is chained to
Manager ==
    [class |-> sm_class, format |-> sm_format,
     data |-> sm_data, default_settings |-> default_settings,
     aliases |-> aliases, file |-> file,
     save_on_change |-> save_on_change, sanitize |-> sanitize,
     err |-> NoError, cause |-> NoError]

\* raise e, and raise e from c
Raise(M, e) == [M EXCEPT !.err = e]
RaiseFrom(M, e, c) == [M EXCEPT !.err = e, !.cause = c]

\* the dict at p of _data is (part of) an object of _default_settings
Aliased(M, p) == \E q \in M.aliases : IsPrefix(q, p)

\* self.data[...][k] = val and del self.data[...][k] on the dict at p: the
\* dict changes in place, and with it _default_settings where the two are
\* one object
StoreIn(M, p, k, val) ==
    [M EXCEPT !.data = DictStore(@, p, k, val),
              !.default_settings =
                  IF Aliased(M, p) THEN DictStore(@, p, k, val) ELSE @,
              !.aliases = {q \in @ : ~IsPrefix(p \o <<k>>, q)}]

RemoveIn(M, p, k) ==
    [M EXCEPT !.data = DictRemove(@, p, k),
              !.default_settings =
                  IF Aliased(M, p) THEN DictRemove(@, p, k) ELSE @,
              !.aliases = {q \in @ : ~IsPrefix(p \o <<k>>, q)}]

\* self.data[key] = value of sanitize_settings: the value of the default
\* itself is stored, not a copy
StoreDefault(M, k) ==
    [M EXCEPT !.data = DictStore(@, <<>>, k, Subtree(M.default_settings, <<k>>)),
              !.aliases =
                  IF M.default_settings[<<k>>].t \in PlainContainers
                  THEN @ \cup {<<k>>} ELSE @]

\* the flat sanitize of both classes: the top-level keys the default does not
\* have are deleted, then the ones it has and the data lacks are added
FlatSanitize(M) ==
    LET dks == M.data[<<>>].ks
        fks == M.default_settings[<<>>].ks
        RECURSIVE remove(_, _)
        remove(m, n) ==
            IF n > Len(dks) THEN m
            ELSE remove(IF HasKey(M.default_settings, <<>>, dks[n]) THEN m
                        ELSE RemoveIn(m, <<>>, dks[n]),
                        n + 1)
        RECURSIVE add(_, _)
        add(m, n) ==
            IF n > Len(fks) THEN m
            ELSE add(IF HasKey(m.data, <<>>, fks[n]) THEN m
                     ELSE StoreDefault(m, fks[n]),
                     n + 1)
    IN add(remove(M, 1), 1)

\* SettingsManager.sanitize_settings works on _data itself;
\* SettingsManagerBase.sanitize_settings works on the dict decoded from
\* __internal_data and keeps the result as JSON text again
SanitizeSettings(M) ==
    IF M.class = "SettingsManager" THEN FlatSanitize(M)
    ELSE [FlatSanitize(M) EXCEPT !.data = JsonDump(@), !.aliases = {}]

\* with open(file=self._write_path, mode="w") as file: <write>.  A failing
\* open leaves the file as it was, a failing write leaves it cut off; with
\* no byte to write, no write fails.
Write(M, io) ==
    CASE io = "open" -> Raise(M, "OSError")
      [] io = "transfer" /\ Encode(M.format, M.data) # EmptyFile ->
            Raise([M EXCEPT !.file = EmptyFile], "OSError")
      [] OTHER -> [M EXCEPT !.file = Encode(M.format, M.data)]

\* SettingsManager.save: for ini, config[section] = settings comes before the
\* file is opened and raises AttributeError for a value that has no items()
SettingsManagerSave(M, io) ==
    LET m == IF M.sanitize THEN SanitizeSettings(M) ELSE M
    IN IF m.format = "ini" /\ ~ValidIniFormat(m.data)
       THEN Raise(m, "AttributeError")
       ELSE Write(m, io)

\* SettingsManagerBase.save of settings_manager.py
SettingsManagerBaseSave(M, io) ==
    LET m == IF M.sanitize THEN SanitizeSettings(M) ELSE M
        w == Write(m, io)
    IN IF ~ValidIniFormat(m.data) THEN Raise(m, "IniFormatError")
       ELSE IF w.err = "OSError" THEN RaiseFrom(w, "SaveError", "OSError")
       ELSE w

Save(M, io) ==
    IF M.class = "SettingsManager" THEN SettingsManagerSave(M, io)
    ELSE SettingsManagerBaseSave(M, io)

\* the setter of SettingsManager.data, and the setter of
\* SettingsManagerBase.settings, which keeps the value as JSON text; al tells
\* where value is an object of the default
SetData(M, value, al, io) ==
    LET m == IF M.class = "SettingsManager"
             THEN [M EXCEPT !.data = value, !.aliases = al]
             ELSE [M EXCEPT !.data = JsonDump(value), !.aliases = {}]
    IN IF M.save_on_change THEN Save(m, io) ELSE m

\* what the reader of the format makes of the file: nothing of a file that
\* does not open or does not read, nothing of no bytes as JSON
Read(M, io) ==
    CASE io = "open" \/ M.file = NoFile -> [err |-> "OSError", doc |-> EmptyDict]
      [] io = "transfer" -> [err |-> "OSError", doc |-> EmptyDict]
      [] M.file = EmptyFile ->
            IF M.format = "ini" THEN [err |-> NoError, doc |-> EmptyDict]
            ELSE [err |-> "JSONDecodeError", doc |-> EmptyDict]
      [] OTHER -> [err |-> NoError, doc |-> M.file]

\* SettingsManager.load: the document goes through the setter of data;
\* ConfigParser.read skips a file that does not open or does not read, and
\* the save of the setter then meets the same file system
SettingsManagerLoad(M, io) ==
    LET r == IF M.format = "ini" /\ Read(M, io).err = "OSError"
             THEN [err |-> NoError, doc |-> EmptyDict]
             ELSE Read(M, io)
        m == SetData(M, r.doc, {}, io)
    IN IF r.err # NoError THEN Raise(M, r.err)
       ELSE IF m.err # NoError THEN m
       ELSE IF M.sanitize THEN SanitizeSettings(m) ELSE m

\* SettingsManagerBase.load of settings_manager.py
SettingsManagerBaseLoad(M, io) ==
    LET r == Read(M, io)
        m == [M EXCEPT !.data = JsonDump(r.doc)]
    IN IF r.err = "OSError" THEN RaiseFrom(M, "LoadError", "OSError")
       ELSE IF r.err # NoError THEN Raise(M, r.err)
       ELSE IF M.sanitize THEN SanitizeSettings(m) ELSE m

Load(M, io) ==
    IF M.class = "SettingsManager" THEN SettingsManagerLoad(M, io)
    ELSE SettingsManagerBaseLoad(M, io)

\* SettingsManager.load_from_default: _data becomes the default dict itself,
\* through the setter; SettingsManagerBase.load_from_default: the JSON text
\* of the defaults becomes the data
LoadFromDefault(M, io) ==
    IF M.class = "SettingsManager" THEN SetData(M, M.default_settings, {<<>>}, io)
    ELSE [M EXCEPT !.data = M.default_settings]

\* __init__ of both classes, from the look at the file on
Construct(class, format, default, onDisk, onChange, san, io) ==
    LET blank == [class |-> class, format |-> format, data |-> EmptyDict,
                  default_settings |->
                      IF class = "SettingsManager" THEN default ELSE JsonDump(default),
                  aliases |-> {}, file |-> onDisk,
                  save_on_change |-> onChange, sanitize |-> san,
                  err |-> NoError, cause |-> NoError]
        m == LoadFromDefault(blank, io)
    IN IF class = "SettingsManager" /\ default = EmptyDict THEN Raise(blank, "ValueError")
       ELSE IF onDisk # NoFile THEN Load(blank, io)
       ELSE IF m.err # NoError THEN m
       ELSE Save(m, io)

ManagerKeys == {KA, KInt1}
ManagerValues == {Leaf("v2")}
DefaultSettings == {DictOf(KA, DictOf(KA, Leaf("v1")))}
\* the documents found on disk: an ini file holds sections
InitialFiles(format) ==
    IF format = "ini" THEN {DictOf(KA, DictOf(KA, Leaf("v2")))}
    ELSE {DictOf(KA, Leaf("v2"))}
AssignedData == {DictOf(KA, Leaf("v2"))}

\* no DotDict is under study
NoDotDict ==
    /\ data = Root(EmptyDict)
    /\ calls = <<>>
    /\ last = Op("none", <<>>, NoKey, NoCallback)
    /\ list_data = NoListData

ManagerIs(M) ==
    /\ sm_class = M.class
    /\ sm_format = M.format
    /\ sm_data = M.data
    /\ default_settings = M.default_settings
    /\ aliases = M.aliases
    /\ file = M.file
    /\ save_on_change = M.save_on_change
    /\ sanitize = M.sanitize

\* a manager is constructed; when __init__ raises there is no manager
ManagerInit ==
    /\ \E class \in Classes, format \in Formats, default \in DefaultSettings,
          onChange \in BOOLEAN, san \in BOOLEAN, io \in IO :
         \E onDisk \in InitialFiles(format) \cup {NoFile} :
            LET M == Construct(class, format, default, onDisk, onChange, san, io)
            IN /\ ManagerIs(M)
               /\ sm_last = [op |-> IF onDisk = NoFile THEN "init_default" ELSE "init_load",
                             err |-> M.err, cause |-> M.cause]
    /\ NoDotDict
    /\ NoSanitizing
    /\ NoSession

\* __init__ returned
Constructed == ~(sm_last.op \in {"init_default", "init_load"} /\ sm_last.err # NoError)

ManagerBecomes(M, name) ==
    /\ Constructed
    /\ sm_class' = M.class
    /\ sm_format' = M.format
    /\ sm_data' = M.data
    /\ default_settings' = M.default_settings
    /\ aliases' = M.aliases
    /\ file' = M.file
    /\ save_on_change' = M.save_on_change
    /\ sanitize' = M.sanitize
    /\ sm_last' = [op |-> name, err |-> M.err, cause |-> M.cause]
    /\ UNCHANGED <<dotdictVars, sanitizeVars, sessionVars>>

\* SettingsManager.__setitem__: self.data[key] = value;
\* SettingsManagerAsDict.__setitem__: self.settings[key] = value, on the dict
\* the getter of settings has just decoded
ManagerSetItem(k, val) ==
    ManagerBecomes(IF sm_class = "SettingsManager"
                   THEN StoreIn(Manager, <<>>, k, val) ELSE Manager,
                   "setitem")

\* SettingsManager.__delitem__: del self.data[key];
\* SettingsManagerAsDict.__delitem__: del self.settings[key]
ManagerDelItem(k) ==
    ManagerBecomes(IF ~HasKey(sm_data, <<>>, k) THEN Raise(Manager, "KeyError")
                   ELSE IF sm_class = "SettingsManager" THEN RemoveIn(Manager, <<>>, k)
                   ELSE Manager,
                   "delitem")

\* manager[k][j] = val: __getitem__ hands out the dict stored under k, of
\* _data or of the dict just decoded
ManagerSetNested(k, j, val) ==
    /\ HasKey(sm_data, <<>>, k)
    /\ sm_data[<<k>>].t = "dict"
    /\ ManagerBecomes(IF sm_class = "SettingsManager"
                      THEN StoreIn(Manager, <<k>>, j, val) ELSE Manager,
                      "setnested")

\* manager.data = value, manager.settings = value
ManagerAssignData(value, io) ==
    ManagerBecomes(SetData(Manager, value, {}, io), "data")

ManagerSave(io) == ManagerBecomes(Save(Manager, io), "save")

ManagerLoad(io) == ManagerBecomes(Load(Manager, io), "load")

ManagerSanitize == ManagerBecomes(SanitizeSettings(Manager), "sanitize_settings")

ManagerLoadFromDefault(io) ==
    ManagerBecomes(LoadFromDefault(Manager, io), "load_from_default")

ManagerNext ==
    \/ \E k \in ManagerKeys, val \in ManagerValues : ManagerSetItem(k, val)
    \/ \E k \in ManagerKeys : ManagerDelItem(k)
    \/ \E k \in ManagerKeys, val \in ManagerValues : ManagerSetNested(k, KA, val)
    \/ \E value \in AssignedData, io \in IO : ManagerAssignData(value, io)
    \/ \E io \in IO : ManagerSave(io)
    \/ \E io \in IO : ManagerLoad(io)
    \/ ManagerSanitize
    \/ \E io \in IO : ManagerLoadFromDefault(io)

SpecManager == ManagerInit /\ [][ManagerNext]_vars

\* the last operation changed the settings through the mapping interface
ManagerMutated ==
    sm_last.op \in {"setitem", "delitem", "setnested"} /\ sm_last.err = NoError

\* C7: with save_on_change set, when an item set, an item delete or a set
\* inside a nested value returns, the file holds the document of the
\* in-memory settings.
C7_AutosaveOnEveryMutation ==
    (save_on_change /\ ManagerMutated) => file = Encode(sm_format, sm_data)

\* C11: the default tree a manager is constructed with is the default tree it
\* has ever after: construction leaves it as it was given, and no mutation of
\* the settings, sanitize, load or save changes it.
C11_DefaultTreeNeverMutated ==
    /\ default_settings \in DefaultSettings
    /\ [][default_settings' = default_settings]_vars

\* C15: when the file does not exist at construction and construction
\* returns, the settings are a deep copy of the default settings (equal to
\* them, and no object of the settings is an object of the defaults) and
\* the file holds the document of the default settings.
C15_AbsentFileGivesSavedDeepCopy ==
    (sm_last.op = "init_default" /\ sm_last.err = NoError) =>
        /\ sm_data = default_settings
        /\ aliases = {}
        /\ file = Encode(sm_format, default_settings)

\* C18: with the ini format, save() of settings that have a top-level value
\* which is no mapping raises IniFormatError and leaves the file as it was.
C18_IniSaveOfScalarsIsIniFormatError ==
    [][(sm_last'.op = "save" /\ sm_format = "ini" /\ ~ValidIniFormat(sm_data')) =>
           /\ sm_last'.err = "IniFormatError"
           /\ file' = file]_vars

\* C19: with a format other than ini, save() of settings whose top-level
\* values are scalars, when no I/O error stops it, returns and leaves the
\* document of the settings in the file.
C19_OtherFormatsSaveScalars ==
    [][(/\ sm_last'.op = "save"
        /\ sm_format # "ini"
        /\ ~ValidIniFormat(sm_data')
        /\ sm_last'.err \notin {"OSError", "SaveError"}) =>
           /\ sm_last'.err = NoError
           /\ file' = Encode(sm_format, sm_data')]_vars

----------------------------------------------------------------------------
(* settings/base.py: sanitize_settings and its helpers.                    *)

KAB == <<"a", "b">>     \* the key "a.b"
Empty == <<"">>         \* the string ""

\* f"{dict_path}.{key}" if dict_path else key
PathOf(dict_path, key) == IF dict_path # Empty THEN dict_path \o key ELSE key

\* keys_to_add[path] = value (a dict: a path it has already keeps its place);
\* origin is where value sits in the defaults, the object that is stored
Put(add, path, value, origin) ==
    LET entry == [path |-> path, value |-> value, origin |-> origin]
    IN IF \E n \in DOMAIN add : add[n].path = path
       THEN [n \in DOMAIN add |-> IF add[n].path = path THEN entry ELSE add[n]]
       ELSE Append(add, entry)

\* keys_to_add.update(nested_keys_to_add)
RECURSIVE Update(_, _)
Update(add, nested) ==
    IF nested = <<>> THEN add
    ELSE Update(Put(add, Head(nested).path, Head(nested).value, Head(nested).origin),
                Tail(nested))

\* SettingsManagerBase._sanitize_settings; at is where default_settings sits
\* in the defaults
RECURSIVE SanitizePlan(_, _, _, _)
SanitizePlan(settings, default, dict_path, at) ==
    LET sks == settings[<<>>].ks
        dks == default[<<>>].ks
        RECURSIVE scan(_, _)
        scan(n, acc) ==
            IF n > Len(sks) THEN acc
            ELSE LET key == sks[n]
                     current_path == PathOf(dict_path, key)
                 IN scan(n + 1,
                      IF ~HasKey(default, <<>>, key)
                      THEN [acc EXCEPT !.remove = Append(@, current_path)]
                      ELSE IF settings[<<key>>].t = "dict" /\ default[<<key>>].t = "dict"
                      THEN LET nested == SanitizePlan(Subtree(settings, <<key>>),
                                                      Subtree(default, <<key>>),
                                                      current_path, at \o <<key>>)
                           IN [remove |-> acc.remove \o nested.remove,
                               add |-> Update(acc.add, nested.add)]
                      ELSE acc)
        RECURSIVE fill(_, _)
        fill(n, acc) ==
            IF n > Len(dks) THEN acc
            ELSE fill(n + 1,
                      IF HasKey(settings, <<>>, dks[n]) THEN acc
                      ELSE [acc EXCEPT !.add = Put(@, PathOf(dict_path, dks[n]),
                                                   Subtree(default, <<dks[n]>>),
                                                   at \o <<dks[n]>>)])
    IN fill(1, scan(1, NoPlan))

\* key.split(sep="."), each part as a key
Split(key) == [n \in DOMAIN key |-> <<key[n]>>]

\* current_dict = current_dict[key] along keys, from the dict at p: a key
\* that is missing raises KeyError, a value that is a string TypeError
RECURSIVE Walk(_, _, _)
Walk(tree, p, keys) ==
    IF keys = <<>> THEN [err |-> NoError, p |-> p]
    ELSE IF tree[p].t # "dict" THEN [err |-> "TypeError", p |-> p]
    ELSE IF ~HasKey(tree, p, Head(keys)) THEN [err |-> "KeyError", p |-> p]
    ELSE Walk(tree, p \o <<Head(keys)>>, Tail(keys))

\* the sanitizer as one record
Sanitizer ==
    [store |-> store, defaults |-> default_settings_as_dict,
     shared |-> shared, err |-> NoError]

\* the places of the defaults that are the object at p of the store
Twins(S, p) ==
    {a.d \o Suffix(a.s, p) : a \in {b \in S.shared : IsPrefix(b.s, p)}}

RECURSIVE StoreAll(_, _, _, _)
StoreAll(tree, ps, k, val) ==
    IF ps = {} THEN tree
    ELSE LET q == CHOOSE x \in ps : TRUE
         IN StoreAll(DictStore(tree, q, k, val), ps \ {q}, k, val)

RECURSIVE RemoveAll(_, _, _)
RemoveAll(tree, ps, k) ==
    IF ps = {} THEN tree
    ELSE LET q == CHOOSE x \in ps : TRUE
         IN RemoveAll(DictRemove(tree, q, k), ps \ {q}, k)

\* SettingsManagerBase._remove_key
RemoveKey(S, key) ==
    LET keys == Split(key)
        w == Walk(S.store, <<>>, SubSeq(keys, 1, Len(keys) - 1))
        k == keys[Len(keys)]
    IN IF w.err # NoError THEN [S EXCEPT !.err = w.err]
       ELSE IF S.store[w.p].t # "dict" THEN [S EXCEPT !.err = "TypeError"]
       ELSE IF ~HasKey(S.store, w.p, k) THEN [S EXCEPT !.err = "KeyError"]
       ELSE [S EXCEPT !.store = DictRemove(@, w.p, k),
                      !.defaults = RemoveAll(@, Twins(S, w.p), k),
                      !.shared = {a \in @ : ~IsPrefix(w.p \o <<k>>, a.s)}]

\* SettingsManagerBase._add_key: the value is stored as it is, the object of
\* the defaults and not a copy of it
AddKey(S, key, value, origin) ==
    LET keys == Split(key)
        w == Walk(S.store, <<>>, SubSeq(keys, 1, Len(keys) - 1))
        k == keys[Len(keys)]
    IN IF w.err # NoError THEN [S EXCEPT !.err = w.err]
       ELSE IF S.store[w.p].t # "dict" THEN [S EXCEPT !.err = "TypeError"]
       ELSE [S EXCEPT !.store = DictStore(@, w.p, k, value),
                      !.defaults = StoreAll(@, Twins(S, w.p), k, value),
                      !.shared = {a \in @ : ~IsPrefix(w.p \o <<k>>, a.s)}
                                    \cup IF value[<<>>].t \in PlainContainers
                                         THEN {[s |-> w.p \o <<k>>, d |-> origin]}
                                         ELSE {}]

\* for key in keys_to_remove: self._remove_key(key=key), up to the first
\* exception
RECURSIVE RemoveKeys(_, _)
RemoveKeys(S, ks) ==
    IF ks = <<>> \/ S.err # NoError THEN S
    ELSE RemoveKeys(RemoveKey(S, Head(ks)), Tail(ks))

\* for key, value in keys_to_add.items(): self._add_key(key=key, value=value)
RECURSIVE AddKeys(_, _)
AddKeys(S, add) ==
    IF add = <<>> \/ S.err # NoError THEN S
    ELSE AddKeys(AddKey(S, Head(add).path, Head(add).value, Head(add).origin),
                 Tail(add))

\* what _sanitize_settings returns for the sanitizer
PlanOf(S) == SanitizePlan(S.store, S.defaults, Empty, <<>>)

\* SettingsManagerBase.sanitize_settings: KeyError and TypeError are not
\* SanitizationError and leave the method as they are
SanitizeStore(S) == AddKeys(RemoveKeys(S, PlanOf(S).remove), PlanOf(S).add)

\* the settings trees of the model: up to MaxEntries top-level keys, in every
\* order, the key "a.b" among them
LiveEntries ==
    {<<KA, Leaf("v2")>>, <<KA, EmptyDict>>, <<KA, DictOf(KB, Leaf("v2"))>>,
     <<KB, Leaf("v2")>>, <<KAB, Leaf("v2")>>}

DefaultEntries ==
    {<<KA, Leaf("v1")>>, <<KA, DictOf(KB, Leaf("v1"))>>, <<KA, DictOf(KB, EmptyDict)>>,
     <<KB, Leaf("v1")>>, <<KAB, Leaf("v1")>>}

\* the dict literal with the entries es, in their order
RECURSIVE TreeOf(_)
TreeOf(es) ==
    IF es = <<>> THEN EmptyDict
    ELSE LET e == es[Len(es)]
         IN DictStore(TreeOf(SubSeq(es, 1, Len(es) - 1)), <<>>, e[1], e[2])

TreesOf(entries) ==
    {TreeOf(es) : es \in
        {f \in UNION {[1..n -> entries] : n \in 0..MaxEntries} :
            \A x, y \in DOMAIN f : x # y => f[x][1] # f[y][1]}}

LiveTrees == TreesOf(LiveEntries)
DefaultTrees == TreesOf(DefaultEntries)

SanitizeInit ==
    /\ \E live \in LiveTrees, default \in DefaultTrees :
         /\ store = live
         /\ default_settings_as_dict = default
         /\ before = [store |-> live, defaults |-> default]
    /\ shared = {}
    /\ plan = NoPlan
    /\ san_err = NoError
    /\ passes = 0
    /\ NoDotDict
    /\ NoManager
    /\ NoSession

\* one call of sanitize_settings; no further call after one that raised
SanitizeSettingsPass ==
    /\ passes < MaxPasses
    /\ san_err = NoError
    /\ LET S == SanitizeStore(Sanitizer)
       IN /\ store' = S.store
          /\ default_settings_as_dict' = S.defaults
          /\ shared' = S.shared
          /\ san_err' = S.err
    /\ plan' = PlanOf(Sanitizer)
    /\ passes' = passes + 1
    /\ before' = [store |-> store, defaults |-> default_settings_as_dict]
    /\ UNCHANGED <<dotdictVars, managerVars, sessionVars>>

SanitizeNext == SanitizeSettingsPass

SpecSanitize == SanitizeInit /\ [][SanitizeNext]_vars

\* the last call of sanitize_settings returned
Sanitized == passes >= 1 /\ san_err = NoError

\* C8: when sanitize_settings has returned, the settings and the defaults
\* have the same keys in every pair of dicts that sit at the same path.
C8_KeySetsMatchAtEveryPath ==
    Sanitized =>
        \A p \in (DOMAIN store) \cap (DOMAIN default_settings_as_dict) :
            (store[p].t = "dict" /\ default_settings_as_dict[p].t = "dict") =>
                Range(store[p].ks) = Range(default_settings_as_dict[p].ks)

\* C9: a value at a key path that the settings and the defaults both had is
\* still there and still the same when sanitize_settings has returned.
C9_SharedPathsKeepTheirValue ==
    Sanitized =>
        \A p \in (DOMAIN before.store) \cap (DOMAIN before.defaults) :
            /\ p \in DOMAIN store
            /\ store[p].t = before.store[p].t
            /\ store[p].v = before.store[p].v

\* C10: a second call of sanitize_settings right after the first returns,
\* plans no removal and no addition and leaves the settings as the first
\* call left them.
C10_SecondPassChangesNothing ==
    passes = 2 =>
        /\ san_err = NoError
        /\ plan = NoPlan
        /\ store = before.store

\* the dotted path _sanitize_settings builds for the key at p of a tree
RECURSIVE DottedPath(_)
DottedPath(p) ==
    IF p = <<>> THEN Empty
    ELSE PathOf(DottedPath(SubSeq(p, 1, Len(p) - 1)), p[Len(p)])

\* the paths the last call planned to remove, and the ones it planned to add
Removals == {plan.remove[n] : n \in DOMAIN plan.remove}
Additions == {plan.add[n].path : n \in DOMAIN plan.add}

\* C12: for a key that both trees have and whose value is a dict on one side
\* only, a call of sanitize_settings leaves the value of the settings at that
\* key as it was and plans no removal and no addition at that path or below.
C12_MismatchedKeyLeftAlone ==
    passes >= 1 =>
        \A p \in (DOMAIN before.store) \cap (DOMAIN before.defaults) :
            (p # <<>> /\ (before.store[p].t = "dict") # (before.defaults[p].t = "dict")) =>
                /\ p \in DOMAIN store
                /\ Subtree(store, p) = Subtree(before.store, p)
                /\ \A path \in Removals \cup Additions : ~IsPrefix(DottedPath(p), path)

\* C13: no dotted path is both among the removals and among the additions of
\* a plan that _sanitize_settings computed.
C13_RemovalsAndAdditionsDisjoint ==
    passes >= 1 => Removals \cap Additions = {}

\* C14: a call of sanitize_settings returns or raises SanitizationError; no
\* other exception leaves it.
C14_FailureIsSanitizationError ==
    san_err \in {NoError, "SanitizationError"}

-----------------------------------------------------------------------------
(* settings/base.py and settings/decorators.py: the session of             *)
(* SettingsManagerBase, with the toggles of autosave.                      *)

MaxMutations == 2   \* most changes of the settings inside one autosave() block

\* the session as one record; saves counts the calls of save() and io_error
\* names the method in which open, read or write raised OSError
Session ==
    [store |-> store, defaults |-> default_settings_as_dict, shared |-> shared,
     format |-> file_format, auto_sanitize |-> auto_sanitize,
     autosave_on_change |-> autosave_on_change,
     autosave_enabled |-> autosave_enabled, file |-> disk,
     saves |-> 0, io_error |-> "none", err |-> NoError, cause |-> NoError]

\* the session with what sanitize_settings left in the sanitizer r
SanitizedBy(S, r) ==
    [S EXCEPT !.store = r.store, !.defaults = r.defaults,
              !.shared = r.shared, !.err = r.err]

\* SettingsManagerBase.sanitize_settings, on the session
SessionSanitize(S) ==
    SanitizedBy(S, SanitizeStore([store |-> S.store, defaults |-> S.defaults,
                                  shared |-> S.shared, err |-> NoError]))

\* if self._auto_sanitize: self.sanitize_settings()
AutoSanitize(S) == IF S.auto_sanitize THEN SessionSanitize(S) ELSE S

\* save() that opens no file: the settings stay where they are
SessionWriteNothing(m, io) ==
    IF m.err # NoError THEN m
    ELSE IF m.format = "ini" /\ ~ValidIniFormat(m.store)
    THEN Raise(m, "IniFormatError")
    ELSE m

\* SettingsManagerBase.save from the test of the ini format on: an OSError
\* of open or of _write is raised as SaveError from it
SessionWrite(m, io) ==
    IF m.err # NoError THEN m
    ELSE IF m.format = "ini" /\ ~ValidIniFormat(m.store)
    THEN Raise(m, "IniFormatError")
    ELSE CASE io = "open" ->
                RaiseFrom([m EXCEPT !.io_error = "save"], "SaveError", "OSError")
           [] io = "transfer" /\ Encode(m.format, m.store) # EmptyFile ->
                RaiseFrom([m EXCEPT !.io_error = "save", !.file = EmptyFile],
                          "SaveError", "OSError")
           [] OTHER -> [m EXCEPT !.file = Encode(m.format, m.store)]

\* save() whose sanitize pass notifies: a pass that changed the settings
\* calls save() once more before the file is written
SessionSaveNotifying(S, io) ==
    LET m == AutoSanitize([S EXCEPT !.saves = @ + 1])
    IN IF m.store # S.store /\ S.autosave_on_change /\ S.autosave_enabled
       THEN SessionWrite(AutoSanitize([m EXCEPT !.saves = @ + 1]), io)
       ELSE SessionWrite(m, io)

\* SettingsManagerBase.save
SessionSave(S, io) == SessionWrite(AutoSanitize([S EXCEPT !.saves = @ + 1]), io)

\* load() without its except clause: the OSError leaves load() as it is
SessionReadUnwrapped(S, r) ==
    IF r.err # NoError THEN Raise([S EXCEPT !.io_error = "load"], r.err)
    ELSE AutoSanitize([S EXCEPT !.store = r.doc, !.shared = {}])

\* SettingsManagerBase.load with what _read made of the file: an OSError is
\* raised as LoadError from it, another exception as it is
SessionRead(S, r) ==
    IF r.err = "OSError"
    THEN RaiseFrom([S EXCEPT !.io_error = "load"], "LoadError", "OSError")
    ELSE IF r.err # NoError THEN Raise(S, r.err)
    ELSE AutoSanitize([S EXCEPT !.store = r.doc, !.shared = {}])

\* load() that empties the settings before it opens the file
SessionLoadEmptying(S, io) ==
    SessionRead([S EXCEPT !.store = EmptyDict, !.shared = {}], Read(S, io))

\* SettingsManagerBase.load
SessionLoad(S, io) == SessionRead(S, Read(S, io))

\* the body of SettingsManagerBase._first_time_load
FirstTimeLoad(S, io) ==
    IF S.file # NoFile THEN SessionLoad(S, io)
    ELSE SessionSave([S EXCEPT !.store = S.defaults, !.shared = {}], io)

\* enable_autosave and disable_autosave, which the decorators call
EnableAutosave(S) == [S EXCEPT !.autosave_enabled = TRUE]
DisableAutosave(S) == [S EXCEPT !.autosave_enabled = FALSE]

\* toggle_autosave_on: the wrapper before it calls func, and after func; what
\* follows func is not run when func raises
ToggleAutosaveOnBefore(S) == IF ~S.autosave_enabled THEN EnableAutosave(S) ELSE S
ToggleAutosaveOnAfter(S) ==
    IF S.err # NoError THEN S
    ELSE IF S.autosave_enabled THEN DisableAutosave(S) ELSE S

\* toggle_autosave_off: the wrapper before it calls func, and after func
ToggleAutosaveOffBefore(S) == IF S.autosave_enabled THEN DisableAutosave(S) ELSE S
ToggleAutosaveOffAfter(S) ==
    IF S.err # NoError THEN S
    ELSE IF ~S.autosave_enabled THEN EnableAutosave(S) ELSE S

\* a change of the settings: the value at key k of the dict at p becomes
\* val, in every object that dict is; the change is saved when autosave is
\* on and enabled
\* the callback of a change of the settings
OnChange(S, io) ==
    IF S.autosave_enabled /\ S.autosave_on_change THEN SessionSave(S, io) ELSE S

SessionSet(S, p, k, val, io) ==
    OnChange([S EXCEPT !.store = DictStore(@, p, k, val),
                       !.defaults = StoreAll(@, Twins(S, p), k, val),
                       !.shared = {a \in @ : ~IsPrefix(p \o <<k>>, a.s)}], io)

\* leaving the autosave() block: the toggle is put back and save() is called
LeaveBlock(S, enabled, io) ==
    SessionSave(IF enabled THEN EnableAutosave(S) ELSE DisableAutosave(S), io)

\* save or load called under one of the decorators
Decorated(S, decorator, method, io) ==
    CASE decorator = "toggle_autosave_on" /\ method = "save" ->
            ToggleAutosaveOnAfter(SessionSave(ToggleAutosaveOnBefore(S), io))
      [] decorator = "toggle_autosave_on" /\ method = "load" ->
            ToggleAutosaveOnAfter(SessionLoad(ToggleAutosaveOnBefore(S), io))
      [] decorator = "toggle_autosave_off" /\ method = "save" ->
            ToggleAutosaveOffAfter(SessionSave(ToggleAutosaveOffBefore(S), io))
      [] decorator = "toggle_autosave_off" /\ method = "load" ->
            ToggleAutosaveOffAfter(SessionLoad(ToggleAutosaveOffBefore(S), io))

\* the sessions of the model: trees of sections with string values
SessionDefaults == {DictOf(KA, DictOf(KA, Leaf("v1")))}
SessionFiles ==
    {DictOf(KA, DictOf(KA, Leaf("v2"))), DictOf(KB, DictOf(KA, Leaf("v2")))}
SessionValues == {Leaf("v2"), Leaf("v3")}

\* what happened last: the operation, whether a decorator wrapped it, the
\* toggle before it, and how it ended
Done(S, name, toggled) ==
    [op |-> name, toggled |-> toggled, enabled |-> autosave_enabled,
     saves |-> S.saves, io_error |-> S.io_error, err |-> S.err, cause |-> S.cause]

SessionIs(S) ==
    /\ store = S.store
    /\ default_settings_as_dict = S.defaults
    /\ shared = S.shared
    /\ file_format = S.format
    /\ auto_sanitize = S.auto_sanitize
    /\ autosave_on_change = S.autosave_on_change
    /\ autosave_enabled = S.autosave_enabled
    /\ disk = S.file

SessionStarts(S, enabled) ==
    /\ SessionIs(S)
    /\ session_last = [op |-> "__init__", toggled |-> TRUE, enabled |-> enabled,
                       saves |-> S.saves, io_error |-> S.io_error,
                       err |-> S.err, cause |-> S.cause]

\* SettingsManagerBase.__init__: the attributes, then _first_time_load under
\* toggle_autosave_off
SessionInit ==
    /\ \E fmt \in Formats, default \in SessionDefaults,
          onDisk \in SessionFiles \cup {NoFile},
          san \in BOOLEAN, onChange \in BOOLEAN, enabled \in BOOLEAN, io \in IO :
         LET blank == [store |-> EmptyDict, defaults |-> default, shared |-> {},
                       format |-> fmt, auto_sanitize |-> san,
                       autosave_on_change |-> onChange,
                       autosave_enabled |-> enabled, file |-> onDisk,
                       saves |-> 0, io_error |-> "none",
                       err |-> NoError, cause |-> NoError]
         IN SessionStarts(ToggleAutosaveOffAfter(
                              FirstTimeLoad(ToggleAutosaveOffBefore(blank), io)),
                          enabled)
    /\ NoFlags
    /\ block = NoBlock
    /\ process = NoProcess
    /\ construction = NoConstruction
    /\ plan = NoPlan
    /\ san_err = NoError
    /\ passes = 0
    /\ before = [store |-> EmptyDict, defaults |-> EmptyDict]
    /\ NoDotDict
    /\ NoManager

\* __init__ returned
SessionConstructed == ~(session_last.op = "__init__" /\ session_last.err # NoError)

SessionBecomes(S, name, toggled) ==
    /\ SessionConstructed
    /\ store' = S.store
    /\ default_settings_as_dict' = S.defaults
    /\ shared' = S.shared
    /\ autosave_enabled' = S.autosave_enabled
    /\ disk' = S.file
    /\ session_last' = Done(S, name, toggled)
    /\ block' = CASE name = "enter" ->
                       [open |-> TRUE, enabled |-> autosave_enabled,
                        saves |-> 0, sets |-> 0]
                  [] name \in {"exit", "raise"} ->
                       [block EXCEPT !.open = FALSE, !.saves = @ + S.saves]
                  [] name = "set" /\ block.open ->
                       [block EXCEPT !.sets = @ + 1, !.saves = @ + S.saves]
                  [] OTHER -> block
    /\ UNCHANGED <<file_format, auto_sanitize, autosave_on_change, construction>>
    /\ UNCHANGED process
    /\ UNCHANGED <<auto_sanitize_on_load, auto_sanitize_on_save>>
    /\ UNCHANGED <<plan, san_err, passes, before, dotdictVars, managerVars>>

\* the places of the settings a change can go to: the keys of a section that
\* hold a scalar, and the keys the settings do not have yet at the top
Settable == {pk \in {<<p, k>> : p \in DOMAIN store, k \in {KA, KB}} :
                /\ store[pk[1]].t = "dict"
                /\ IF pk[1] = <<>> THEN ~HasKey(store, pk[1], pk[2])
                   ELSE /\ HasKey(store, pk[1], pk[2])
                        /\ store[pk[1] \o <<pk[2]>>].t = "scalar"}

\* settings.<section>.<key> = value, outside and inside an autosave() block
SessionChange(p, k, val, io) ==
    /\ <<p, k>> \in Settable
    /\ p = <<>> => val = Leaf("v2")
    /\ block.open => block.sets < MaxMutations
    /\ SessionBecomes(SessionSet(Session, p, k, val, io), "set", FALSE)

\* save() and load() called by the application, outside a block
SessionSaveCall(io) ==
    /\ ~block.open
    /\ SessionBecomes(SessionSave(Session, io), "save", FALSE)

SessionLoadCall(io) ==
    /\ ~block.open
    /\ SessionBecomes(SessionLoad(Session, io), "load", FALSE)

\* a method under one of the decorators
SessionDecoratedCall(decorator, method, io) ==
    /\ ~block.open
    /\ SessionBecomes(Decorated(Session, decorator, method, io), method, TRUE)

SessionEnableAutosave ==
    /\ ~block.open
    /\ SessionBecomes(EnableAutosave(Session), "enable_autosave", FALSE)

SessionDisableAutosave ==
    /\ ~block.open
    /\ SessionBecomes(DisableAutosave(Session), "disable_autosave", FALSE)

\* with manager.autosave(): the block is entered
SessionEnterBlock ==
    /\ ~block.open
    /\ SessionBecomes(DisableAutosave(Session), "enter", FALSE)

\* the block is left, by its end or by an exception raised inside it
SessionLeaveBlock(how, io) ==
    /\ block.open
    /\ SessionBecomes(LeaveBlock(Session, block.enabled, io), how, FALSE)

SessionNext ==
    \/ \E p \in DOMAIN store, k \in {KA, KB}, val \in SessionValues, io \in IO :
          SessionChange(p, k, val, io)
    \/ \E io \in IO : SessionSaveCall(io)
    \/ \E io \in IO : SessionLoadCall(io)
    \/ \E decorator \in {"toggle_autosave_on", "toggle_autosave_off"},
          method \in {"save", "load"}, io \in IO :
          SessionDecoratedCall(decorator, method, io)
    \/ SessionEnableAutosave
    \/ SessionDisableAutosave
    \/ SessionEnterBlock
    \/ \E how \in {"exit", "raise"}, io \in IO : SessionLeaveBlock(how, io)

SpecSession == SessionInit /\ [][SessionNext]_vars

\* what a session opened now on the file has for settings
Reopened == SessionLoad(Session, "ok")

C17_ToggleRestoresAutosave ==
    session_last.toggled => autosave_enabled = session_last.enabled

\* C20: an OSError of open or read in load() leaves load() as LoadError, an
\* OSError of open or write in save() leaves save() as SaveError, each with
\* the OSError as its cause; no operation ends with the OSError itself.
C20_IOErrorsAreWrapped ==
    /\ session_last.err # "OSError"
    /\ session_last.io_error = "load" =>
          (session_last.err = "LoadError" /\ session_last.cause = "OSError")
    /\ session_last.io_error = "save" =>
          (session_last.err = "SaveError" /\ session_last.cause = "OSError")

\* load() called on a file that could not be read
C20_Witness ==
    /\ session_last.op = "load"
    /\ session_last.io_error = "load"
    /\ session_last.err = "LoadError"

\* a load() or save() called now, with the file system working, returns
Retried ==
    \/ SessionSave(Session, "ok").err = NoError
    \/ SessionLoad(Session, "ok").err = NoError

\* a load() or save() has just ended with a failure of the file system or
\* with the refusal of a tree that is no ini document
SessionFailed ==
    /\ session_last.op \in {"save", "load"}
    /\ session_last.err \in {"LoadError", "SaveError", "IniFormatError"}

\* C21 as stated: a load() or save() that ends with LoadError, SaveError or
\* IniFormatError leaves the settings exactly as they were before the call,
\* and a load() or save() called afterwards can return.
C21_FailedLoadSaveKeepsSettings ==
    /\ [][SessionFailed' => store' = store]_vars
    /\ [](SessionFailed => Retried)

\* C21 as amended: a load() that ends with LoadError leaves the settings
\* exactly as they were; a save() that ends with SaveError or IniFormatError
\* leaves them as they were when _auto_sanitize is off, and otherwise as the
\* sanitize_settings pass that save() runs before it writes left them; in
\* each case a load() or save() called afterwards can return.
C21_FailedLoadSaveKeepsSanitizedSettings ==
    /\ [][SessionFailed' =>
             store' = IF session_last'.err = "LoadError" THEN store
                      ELSE AutoSanitize(Session).store]_vars
    /\ [](SessionFailed => Retried)

\* save() refused a tree with a scalar at the top for an ini file
C21_Witness ==
    /\ session_last.op = "save"
    /\ session_last.err = "IniFormatError"
    /\ ~ValidIniFormat(store)

----------------------------------------------------------------------------
(* The constructors: where the file is, and its format.                    *)
(* A file name is a Python string, so "s.json" is <<"s", "json">>; None is *)
(* the empty sequence, which is no string.                                 *)

\* "not s" of an argument that is a string or None
Falsy(s) == s \in {None, <<"">>}

\* Path(p).suffix and the end p.endswith tests, without the dot
PathSuffix(p) == IF Len(p) > 1 THEN p[Len(p)] ELSE ""

SUPPORTED_FORMATS == {"json", "yaml", "toml", "ini"}

\* extension_to_format, and whether an extension is one of its keys
HasFormat(suffix) == suffix \in {"json", "yaml", "yml", "toml", "ini"}
ExtensionToFormat(suffix) == IF suffix = "yml" THEN "yaml" ELSE suffix

\* the exception a constructor raises for its arguments: the managers of
\* base.py and the SettingsManagerBase of settings_manager.py raise
\* InvalidPathError and UnsupportedFormatError, SettingsManager ValueError
Raised(c, e) ==
    [c EXCEPT !.step = "raised",
              !.err = IF c.class = "SettingsManager"
                         /\ e \in {"InvalidPathError", "UnsupportedFormatError"}
                      THEN "ValueError" ELSE e]

\* __init__ from its first line to the assignment of _read_path and
\* _write_path, which neither branch makes when only one of read_path and
\* write_path is given
InitPaths(c) ==
    IF Falsy(c.path) /\ ~(~Falsy(c.read_path) \/ ~Falsy(c.write_path))
    THEN Raised(c, "InvalidPathError")
    ELSE IF ~Falsy(c.path) /\ (~Falsy(c.read_path) \/ ~Falsy(c.write_path))
    THEN Raised(c, "InvalidPathError")
    ELSE IF ~Falsy(c.path)
    THEN [c EXCEPT !.step = "located", !.paths = <<c.path, c.path>>]
    ELSE IF ~Falsy(c.read_path) /\ ~Falsy(c.write_path)
    THEN [c EXCEPT !.step = "located", !.paths = <<c.read_path, c.write_path>>]
    ELSE [c EXCEPT !.step = "located"]

\* utils.set_file_paths; the assert is not there under python -O, and
\* Path(None) raises TypeError
SetFilePaths(c) ==
    IF Falsy(c.path) /\ ~(~Falsy(c.read_path) \/ ~Falsy(c.write_path))
    THEN Raised(c, "MissingPathError")
    ELSE IF ~Falsy(c.path) /\ (~Falsy(c.read_path) \/ ~Falsy(c.write_path))
    THEN Raised(c, "TooManyPathsError")
    ELSE IF ~Falsy(c.path)
    THEN [c EXCEPT !.step = "located", !.paths = <<c.path, c.path>>]
    ELSE IF c.read_path = None \/ c.write_path = None
    THEN Raised(c, IF c.asserts THEN "AssertionError" ELSE "TypeError")
    ELSE [c EXCEPT !.step = "located", !.paths = <<c.read_path, c.write_path>>]

\* the format is not one of SUPPORTED_FORMATS
Supported(c, fmt) ==
    IF fmt \in SUPPORTED_FORMATS THEN [c EXCEPT !.step = "formatted", !.fmt = fmt]
    ELSE Raised(c, "UnsupportedFormatError")

\* _get_format of base.py and of the SettingsManagerBase of
\* settings_manager.py, utils._determine_format_from_file_extension
DetermineFormatFromFileExtension(c) ==
    IF PathSuffix(c.paths[1]) # PathSuffix(c.paths[2])
    THEN Raised(c, "UnsupportedFormatError")
    ELSE IF HasFormat(PathSuffix(c.paths[1]))
    THEN Supported(c, ExtensionToFormat(PathSuffix(c.paths[1])))
    ELSE Raised(c, "UnsupportedFormatError")

\* SettingsManager._get_format: the end of _read_path alone
SettingsManagerGetFormat(c) ==
    IF HasFormat(PathSuffix(c.paths[1]))
    THEN Supported(c, ExtensionToFormat(PathSuffix(c.paths[1])))
    ELSE Raised(c, "ValueError")

\* __init__ from "if config_format:" to the test of the format, and
\* utils.set_format; _get_format reads _read_path
InitFormat(c) ==
    IF ~Falsy(c.format) THEN Supported(c, c.format[1])
    ELSE IF c.paths = <<>> THEN Raised(c, "AttributeError")
    ELSE IF c.class = "SettingsManager" THEN SettingsManagerGetFormat(c)
    ELSE DetermineFormatFromFileExtension(c)

\* the first use of the file system: _read_path.exists()
InitExists(c) ==
    IF c.paths = <<>> THEN Raised(c, "AttributeError")
    ELSE [c EXCEPT !.step = "exists"]

ConstructorClasses ==
    {"SettingsManagerBase", "SettingsManagerAsDict", "SettingsManager", "utils"}
FileNames == {<<"s", "json">>, <<"s", "ini">>, <<"s", "txt">>}
FormatNames == {<<"json">>, <<"xml">>}

\* a constructor is called: "utils" stands for set_file_paths followed by
\* set_format
ConstructInit ==
    /\ \E class \in ConstructorClasses,
          path \in {None, <<"">>, <<"s", "json">>},
          read_path \in FileNames \cup {None, <<"">>},
          write_path \in FileNames \cup {None, <<"">>},
          format \in FormatNames \cup {None}, asserts \in BOOLEAN :
         /\ class # "utils" => asserts
         /\ construction =
              [NoConstruction EXCEPT !.class = class, !.path = path,
                                     !.read_path = read_path,
                                     !.write_path = write_path,
                                     !.format = format, !.asserts = asserts,
                                     !.step = "called"]
    /\ file_format = "none"
    /\ auto_sanitize = FALSE
    /\ NoFlags
    /\ autosave_on_change = FALSE
    /\ autosave_enabled = FALSE
    /\ disk = EmptyDict
    /\ block = NoBlock
    /\ process = NoProcess
    /\ session_last = [op |-> "none", err |-> NoError, cause |-> NoError]
    /\ NoDotDict
    /\ NoManager
    /\ NoSanitizing

ConstructionBecomes(c) ==
    /\ construction' = c
    /\ UNCHANGED process
    /\ UNCHANGED <<auto_sanitize_on_load, auto_sanitize_on_save>>
    /\ UNCHANGED <<file_format, auto_sanitize, autosave_on_change,
                   autosave_enabled, disk, block, session_last>>
    /\ UNCHANGED <<dotdictVars, managerVars, sanitizeVars>>

CheckPaths ==
    /\ construction.step = "called"
    /\ ConstructionBecomes(IF construction.class = "utils"
                           THEN SetFilePaths(construction)
                           ELSE InitPaths(construction))

CheckFormat ==
    /\ construction.step = "located"
    /\ ConstructionBecomes(InitFormat(construction))

CheckExists ==
    /\ construction.step = "formatted"
    /\ construction.class # "utils"
    /\ ConstructionBecomes(InitExists(construction))

ConstructNext == CheckPaths \/ CheckFormat \/ CheckExists

SpecConstruct == ConstructInit /\ [][ConstructNext]_vars

\* one form of location is given: a single path, or both read_path and
\* write_path
OneLocation ==
    \/ /\ ~Falsy(construction.path)
       /\ Falsy(construction.read_path) /\ Falsy(construction.write_path)
    \/ /\ Falsy(construction.path)
       /\ ~Falsy(construction.read_path) /\ ~Falsy(construction.write_path)

\* C22: once the constructor has looked at path, read_path and write_path,
\* it has raised its configuration error (InvalidPathError; ValueError in
\* SettingsManager; MissingPathError or TooManyPathsError in set_file_paths)
\* unless one form of location was given, and it never goes on to the format
\* or to the file with anything else.
C22_OneLocationOrConfigurationError ==
    (construction.step \notin {"none", "called"} /\ ~OneLocation) =>
        /\ construction.step = "raised"
        /\ construction.err \in {"InvalidPathError", "ValueError",
                                 "MissingPathError", "TooManyPathsError"}
        /\ construction.paths = <<>>

\* C23: with no format given and a read path and a write path whose
\* extensions differ, the constructor raises UnsupportedFormatError when it
\* determines the format, and does not reach the file.
C23_MismatchedExtensionsRejected ==
    (/\ construction.step \notin {"none", "called", "located"}
     /\ construction.paths # <<>>
     /\ Falsy(construction.format)
     /\ PathSuffix(construction.paths[1]) # PathSuffix(construction.paths[2])) =>
        /\ construction.step = "raised"
        /\ construction.err = "UnsupportedFormatError"

----------------------------------------------------------------------------
(* The registry of the DotDict: add_callback and remove_callback.          *)

\* list.remove(x) of a list that holds x: the first x goes
RECURSIVE RemoveFirst(_, _)
RemoveFirst(s, x) ==
    IF s = <<>> THEN <<>>
    ELSE IF Head(s) = x THEN Tail(s)
    ELSE <<Head(s)>> \o RemoveFirst(Tail(s), x)

\* BaseWrapper.remove_callback of the wrappers at ps, one after the other:
\* list.remove raises ValueError at the first list that does not hold cb,
\* and the lists before it stay as they were left
RECURSIVE RemoveEach(_, _, _)
RemoveEach(tree, ps, cb) ==
    IF ps = <<>> THEN [data |-> tree, err |-> NoError]
    ELSE IF cb \notin Range(CallbacksOf(tree, Head(ps)))
         THEN [data |-> tree, err |-> "ValueError"]
         ELSE RemoveEach([tree EXCEPT ![Owner(tree, Head(ps))].cbs = RemoveFirst(@, cb)],
                         Tail(ps), cb)

\* remove_callback that passes over a callback the root's list does not hold
DotDictRemoveCallbackSilently(tree, cb) ==
    LET r == RemoveEach(tree, <<(<<>>)>> \o TopWrappers(tree), cb)
    IN [data |-> r.data, err |-> NoError, calls |-> <<>>]

\* DotDict.remove_callback: the root's list, then remove_callback of every
\* wrapper among the root's values
DotDictRemoveCallback(tree, cb) ==
    LET r == RemoveEach(tree, <<(<<>>)>> \o TopWrappers(tree), cb)
    IN [data |-> r.data, err |-> r.err, calls |-> <<>>]

MaxViews == 2      \* most objects below the root while the registry is studied
MaxHandlers == 2   \* longest callback list while the registry is studied

\* the values stored while the registry is under study
RegistryValues == {Leaf("v1"), EmptyDict}

\* the trees followed while the registry is under study
RegistryBounded(tree) ==
    /\ Size(tree) <= MaxViews
    /\ \A q \in DOMAIN tree : Len(tree[q].cbs) <= MaxHandlers

RegistrySetItem(p, k, val) ==
    /\ data[p].t \in MappingViews
    /\ RegistryBounded(DictWrapperSet(data, p, k, val).data)
    /\ SetItem(p, k, val)

RegistryDelItem(p, k) == DelItem(p, k)

RegistryAddCallback(cb) ==
    /\ RegistryBounded(DotDictAddCallback(data, cb).data)
    /\ AddCallback(cb)

\* remove_callback of a callback, registered or not
RemoveCallback(cb) ==
    Becomes(DotDictRemoveCallback(data, cb), "remove_callback", <<>>, NoKey, cb)

\* SettingsManagerBase of base.py is a DotDict, and load() of base.py assigns
\* self._store = self._read(file=f): DictWrapper.__setattr__ wraps the
\* document, stores the wrapper under the key _store of the root's _data and
\* calls _notify
StoreKey == <<"_store">>
BaseLoad(tree, doc) == DictWrapperSet(tree, <<>>, StoreKey, doc)

\* the documents load() reads
LoadedDocuments == {EmptyDict, DictOf(KA, Leaf("v1"))}

RegistryLoad(doc) ==
    /\ RegistryBounded(BaseLoad(data, doc).data)
    /\ Becomes(BaseLoad(data, doc), "load", <<>>, NoKey, NoCallback)

RegistryNext ==
    \/ \E p \in DOMAIN data, k \in Keys, val \in RegistryValues : RegistrySetItem(p, k, val)
    \/ \E p \in DOMAIN data, k \in Keys : RegistryDelItem(p, k)
    \/ \E cb \in Callbacks : RegistryAddCallback(cb)
    \/ \E cb \in Callbacks : RemoveCallback(cb)
    \/ \E doc \in LoadedDocuments : RegistryLoad(doc)

SpecRegistry == Init /\ [][RegistryNext]_vars

\* C24: remove_callback of a callback the root's list does not hold raises
\* ValueError and leaves the callback list of the root and of every view as
\* it was.
C24_UnregisteredRemoveFailsCleanly ==
    [][(last'.op = "remove_callback" /\ last'.cb \notin Range(Registered)) =>
           /\ last'.err = "ValueError"
           /\ data' = data
           /\ calls' = <<>>]_vars

\* remove_callback of cb2 has failed on a tree where cb1 is registered and a
\* nested view holds it
C24_Witness ==
    /\ last.op = "remove_callback" /\ last.cb = "cb2" /\ last.err = "ValueError"
    /\ Registered = <<"cb1">>
    /\ \E p \in DOMAIN data : p # <<>> /\ data[p].t \in MappingViews
                               /\ CallbacksOf(data, p) = <<"cb1">>

\* C25: remove_callback of a callback that add_callback registered at the
\* root, whatever was stored or deleted in between, returns without an
\* exception, and afterwards no view of the tree holds the callback.
C25_AddThenRemoveRestoresRegistry ==
    [][(last'.op = "remove_callback" /\ last'.cb \in Range(Registered)) =>
           /\ last'.err = NoError
           /\ \A p \in DOMAIN data' :
                data'[p].t \in Wrappers =>
                    last'.cb \notin Range(CallbacksOf(data', p))]_vars

----------------------------------------------------------------------------
(* The list views and set views, and to_dict.                              *)
(* ListWrapper and SetWrapper are a list and a set themselves: __init__    *)
(* fills the wrapper with the wrapped items of the list or set it is made  *)
(* from and keeps that list or set, as it is, in _data.  The tree holds    *)
(* the items of the wrapper; list_data holds, for every such view, the     *)
(* items of its _data.  An item of _data that is a dict or a list is the   *)
(* very object the item of the wrapper wraps, so while the wrapper holds   *)
(* that item (live) the content of the item of _data is read off the tree; *)
(* a scalar, and an item the wrapper has given up, is kept by value (was). *)

MaxItems == 3      \* most objects below the root while the views are studied

ViewScalars == <<"v1", "v2">>
EmptyList == (<<>> :> Listing(<<>>))
SetOf(v) == Nest(Node("set", "", <<(<<v>>)>>), <<v>>, Leaf(v))

\* the values stored in a mapping, and the items appended to a list
ViewValues == {Leaf("v1"), EmptyDict, EmptyList, ListOf(Leaf("v1")),
               ListOf(EmptyDict), SetOf("v1")}
ViewItems == {Leaf("v1"), Leaf("v2"), EmptyDict}

\* the names of the items of a list: an item keeps its name while the list
\* or its _data holds it
ItemKeys == [n \in 1..(2 * MaxItems) |-> <<ToString(n - 1)>>]

ListViews == {"ListWrapper", "SetWrapper"}

PlainType(t) ==
    CASE t \in MappingViews -> "dict"
      [] t = "ListWrapper" -> "list"
      [] t = "SetWrapper" -> "set"
      [] OTHER -> t

\* the keys of the children of a node in the order a reader meets them: a
\* set has no order of its own, its elements come in the order of ViewScalars
Ordered(node) ==
    IF node.t \in {"set", "SetWrapper"}
    THEN SelectSeq([n \in DOMAIN ViewScalars |-> <<ViewScalars[n]>>],
                   LAMBDA k : k \in Range(node.ks))
    ELSE node.ks

\* a Python value written out: its type, its value when it is a scalar, its
\* keys when it is a mapping, and its values or items written out in turn
Content(t, v, ks, items) == [t |-> t, v |-> v, ks |-> ks, items |-> items]
NoContent == Content("none", "", <<>>, <<>>)

\* the object at p written out, with every view either shown as the view it
\* is (plain = FALSE) or as the dict, list or set of its items (plain = TRUE)
RECURSIVE Contents(_, _, _)
Contents(tree, p, plain) ==
    LET ord == Ordered(tree[p])
    IN Content(IF plain THEN PlainType(tree[p].t) ELSE tree[p].t,
               tree[p].v,
               IF PlainType(tree[p].t) = "dict" THEN tree[p].ks ELSE <<>>,
               [n \in DOMAIN ord |-> Contents(tree, p \o <<ord[n]>>, plain)])

\* _data of the list view or set view at p: the list or set it was made from
RECURSIVE RawData(_, _, _)
RawData(tree, ld, p) ==
    Content(PlainType(tree[p].t), "", <<>>,
            [n \in DOMAIN ld[p] |->
                LET c == p \o <<ld[p][n].k>>
                IN IF ~ld[p][n].live THEN ld[p][n].was
                   ELSE IF tree[c].t \in ListViews THEN RawData(tree, ld, c)
                   ELSE [Contents(tree, c, FALSE) EXCEPT !.t = "dict"]])

\* DictWrapper.to_dict of the view at p: to_dict() of a value that is a
\* DictWrapper, _data of a value that is another wrapper, and any other
\* value as it is
RECURSIVE ToDict(_, _, _)
ToDict(tree, ld, p) ==
    Content("dict", "", tree[p].ks,
            [n \in DOMAIN tree[p].ks |->
                LET c == p \o <<tree[p].ks[n]>>
                IN IF tree[c].t \in MappingViews THEN ToDict(tree, ld, c)
                   ELSE IF tree[c].t \in Wrappers THEN RawData(tree, ld, c)
                   ELSE Contents(tree, c, FALSE)])

\* a written-out value holds a view somewhere
RECURSIVE HasView(_)
HasView(c) == c.t \in Wrappers \/ \E n \in DOMAIN c.items : HasView(c.items[n])

\* _data of the views that _wrap(val) makes, val being stored at path at
ListDataOf(val, at) ==
    [q \in {at \o r : r \in {w \in WrappedPaths(val) : val[w].t \in {"list", "set"}}} |->
        LET r == Suffix(at, q)
            ord == Ordered(val[r])
        IN [n \in DOMAIN ord |->
                LET c == r \o <<ord[n]>>
                IN [k |-> ord[n],
                    live |-> val[c].t \in PlainContainers,
                    was |-> IF val[c].t \in PlainContainers THEN NoContent
                            ELSE Contents(val, c, FALSE)]]]

\* list_data without the views at and below path q, and with those of more
Replaced(ld, q, more) ==
    [r \in {x \in DOMAIN ld : ~IsPrefix(q, x)} \cup DOMAIN more |->
        IF r \in DOMAIN more THEN more[r] ELSE ld[r]]

\* _data of the view at p once the view has given up its item k: the item of
\* _data stays, with the content the object has at that time
GivenUp(tree, ld, p, k) ==
    [n \in DOMAIN ld[p] |->
        IF ld[p][n].k = k /\ ld[p][n].live
        THEN [k |-> k, live |-> FALSE, was |-> RawData(tree, ld, p).items[n]]
        ELSE ld[p][n]]

\* the first name no item of the list at p and of its _data has
Unused(tree, ld, p) ==
    {n \in DOMAIN ItemKeys :
        /\ ItemKeys[n] \notin Range(tree[p].ks)
        /\ \A m \in DOMAIN ld[p] : ld[p][m].k # ItemKeys[n]}
FreshItem(tree, ld, p) ==
    ItemKeys[CHOOSE n \in Unused(tree, ld, p) : \A m \in Unused(tree, ld, p) : n <= m]

\* DictWrapper.__setitem__ on the view at p, with the _data of the views made
ViewDictSet(tree, ld, p, k, val) ==
    LET r == DictWrapperSet(tree, p, k, val)
    IN [data |-> r.data, err |-> r.err, calls |-> r.calls,
        ld |-> Replaced(ld, p \o <<k>>, ListDataOf(val, p \o <<k>>))]

\* DictWrapper.__delitem__ on the view at p
ViewDictDel(tree, ld, p, k) ==
    LET r == DictWrapperDel(tree, p, k)
    IN [data |-> r.data, err |-> r.err, calls |-> r.calls,
        ld |-> IF r.err = NoError THEN Replaced(ld, p \o <<k>>, <<>>) ELSE ld]

\* ListWrapper.append: list.append of the wrapped item on the wrapper, then
\* _notify; _data is not touched
ListWrapperAppend(tree, ld, p, item) ==
    LET k == FreshItem(tree, ld, p)
        grafted == Graft(tree, p \o <<k>>, Wrap(item, tree, p))
        stored == [grafted EXCEPT ![p].ks = Append(@, k)]
    IN [data |-> stored, err |-> NoError,
        calls |-> Notify(CallbacksOf(stored, p), Observe(stored, p \o <<k>>)),
        ld |-> ld]

\* ListWrapper.pop(): list.pop of the wrapper, then _notify; _data is not
\* touched
ListWrapperPop(tree, ld, p) ==
    IF tree[p].ks = <<>>
    THEN [data |-> tree, err |-> "IndexError", calls |-> <<>>, ld |-> ld]
    ELSE LET k == tree[p].ks[Len(tree[p].ks)]
             pruned == Prune(tree, p \o <<k>>)
             removed == [pruned EXCEPT ![p].ks = SubSeq(@, 1, Len(@) - 1)]
         IN [data |-> removed, err |-> NoError,
             calls |-> Notify(CallbacksOf(removed, p), Observe(removed, p \o <<k>>)),
             ld |-> [Replaced(ld, p \o <<k>>, <<>>) EXCEPT
                        ![p] = GivenUp(tree, ld, p, k)]]

\* SetWrapper.add: set.add on the wrapper, then _notify
SetWrapperAdd(tree, ld, p, v) ==
    LET stored == IF <<v>> \in Range(tree[p].ks) THEN tree
                  ELSE [Graft(tree, p \o <<(<<v>>)>>, Leaf(v)) EXCEPT
                            ![p].ks = Append(@, <<v>>)]
    IN [data |-> stored, err |-> NoError,
        calls |-> Notify(CallbacksOf(stored, p), Observe(stored, p \o <<(<<v>>)>>)),
        ld |-> ld]

\* SetWrapper.discard: set.discard on the wrapper, then _notify
SetWrapperDiscard(tree, ld, p, v) ==
    LET removed == IF <<v>> \in Range(tree[p].ks)
                   THEN [Prune(tree, p \o <<(<<v>>)>>) EXCEPT ![p].ks = Without(@, <<v>>)]
                   ELSE tree
    IN [data |-> removed, err |-> NoError,
        calls |-> Notify(CallbacksOf(removed, p), Observe(removed, p \o <<(<<v>>)>>)),
        ld |-> ld]

\* the trees followed while the views are under study
ViewsBounded(tree) ==
    /\ Size(tree) <= MaxItems
    /\ \A q \in DOMAIN tree : Len(tree[q].cbs) <= MaxHandlers

ViewsInit ==
    /\ data = Root(EmptyDict)
    /\ calls = <<>>
    /\ last = Op("init", <<>>, NoKey, NoCallback)
    /\ list_data = <<>>
    /\ NoManager
    /\ NoSanitizing
    /\ NoSession

\* the outcome r of an operation on a view becomes the state
ViewBecomes(r, name, p, k, cb) ==
    /\ ViewsBounded(r.data)
    /\ data' = r.data
    /\ calls' = r.calls
    /\ list_data' = r.ld
    /\ last' = [Op(name, p, k, cb) EXCEPT !.err = r.err]
    /\ UNCHANGED <<managerVars, sanitizeVars, sessionVars>>

ViewSetItem(p, k, val) ==
    /\ data[p].t \in MappingViews
    /\ ViewBecomes(ViewDictSet(data, list_data, p, k, val), "set", p, k, NoCallback)

ViewDelItem(p, k) ==
    /\ data[p].t \in MappingViews
    /\ ViewBecomes(ViewDictDel(data, list_data, p, k), "del", p, k, NoCallback)

ListAppend(p, item) ==
    /\ data[p].t = "ListWrapper"
    /\ Unused(data, list_data, p) # {}
    /\ ViewBecomes(ListWrapperAppend(data, list_data, p, item), "append", p, NoKey, NoCallback)

ListPop(p) ==
    /\ data[p].t = "ListWrapper"
    /\ ViewBecomes(ListWrapperPop(data, list_data, p), "pop", p, NoKey, NoCallback)

SetAdd(p, v) ==
    /\ data[p].t = "SetWrapper"
    /\ ViewBecomes(SetWrapperAdd(data, list_data, p, v), "add", p, NoKey, NoCallback)

SetDiscard(p, v) ==
    /\ data[p].t = "SetWrapper"
    /\ ViewBecomes(SetWrapperDiscard(data, list_data, p, v), "discard", p, NoKey, NoCallback)

ViewAddCallback(cb) ==
    /\ cb \notin Range(Registered)
    /\ ViewBecomes([data |-> DotDictAddCallback(data, cb).data, err |-> NoError,
                    calls |-> <<>>, ld |-> list_data],
                   "add_callback", <<>>, NoKey, cb)

\* DotDict.to_dict: the result is read off the state, which stays as it is
CallToDict ==
    /\ last.op # "to_dict"
    /\ ViewBecomes([data |-> data, err |-> NoError, calls |-> <<>>, ld |-> list_data],
                   "to_dict", <<>>, NoKey, NoCallback)

ViewsNext ==
    \/ \E p \in DOMAIN data, k \in Keys, val \in ViewValues : ViewSetItem(p, k, val)
    \/ \E p \in DOMAIN data, k \in Keys : ViewDelItem(p, k)
    \/ \E p \in DOMAIN data, item \in ViewItems : ListAppend(p, item)
    \/ \E p \in DOMAIN data : ListPop(p)
    \/ \E p \in DOMAIN data, v \in Range(ViewScalars) : SetAdd(p, v)
    \/ \E p \in DOMAIN data, v \in Range(ViewScalars) : SetDiscard(p, v)
    \/ \E cb \in {"cb1"} : ViewAddCallback(cb)
    \/ CallToDict

SpecViews == ViewsInit /\ [][ViewsNext]_vars

\* C26: to_dict() invokes no callback, and what it returns holds no view and
\* is, written out, the tree as it is at the time of the call.
C26_ToDictGivesCurrentPlainTree ==
    last.op = "to_dict" =>
        /\ calls = <<>>
        /\ ~HasView(ToDict(data, list_data, <<>>))
        /\ ToDict(data, list_data, <<>>) = Contents(data, <<>>, TRUE)

----------------------------------------------------------------------------
(* Loading and the save of a change.                                       *)

\* C28: after load() no change of the tree that load() stored invokes a
\* callback: the callbacks registered before the load are not carried over.
C28_LoadDiscardsCallbacks ==
    (last.op = "load" /\ last.err = NoError) =>
        \A k \in Keys, val \in RegistryValues :
            DictWrapperSet(data, <<StoreKey>>, k, val).calls = <<>>

\* C27: with save-on-change set, load() and load_from_default() write
\* nothing: the file is after the call what it was before it.
C27_LoadNeverSaves ==
    [][(sm_last'.op \in {"load", "load_from_default"} /\ save_on_change) =>
           file' = file]_vars

----------------------------------------------------------------------------
(* The two flags of sanitizing.  __init__ of base.py stores its arguments  *)
(* auto_sanitize_on_load and auto_sanitize_on_save, both set by            *)
(* auto_sanitize, after _first_time_load has returned; save() and load()   *)
(* read _auto_sanitize.                                                    *)

FlagsInit ==
    /\ \E fmt \in Formats, default \in SessionDefaults,
          onDisk \in SessionFiles \cup {NoFile},
          san \in BOOLEAN, onLoad \in BOOLEAN, onSave \in BOOLEAN, io \in IO :
         LET blank == [store |-> EmptyDict, defaults |-> default, shared |-> {},
                       format |-> fmt, auto_sanitize |-> san,
                       autosave_on_change |-> FALSE,
                       autosave_enabled |-> TRUE, file |-> onDisk,
                       saves |-> 0, io_error |-> "none",
                       err |-> NoError, cause |-> NoError]
         IN /\ SessionStarts(ToggleAutosaveOffAfter(
                                 FirstTimeLoad(ToggleAutosaveOffBefore(blank), io)),
                             TRUE)
            /\ auto_sanitize_on_load = onLoad
            /\ auto_sanitize_on_save = onSave
    /\ block = NoBlock
    /\ process = NoProcess
    /\ construction = NoConstruction
    /\ plan = NoPlan
    /\ san_err = NoError
    /\ passes = 0
    /\ before = [store |-> EmptyDict, defaults |-> EmptyDict]
    /\ NoDotDict
    /\ NoManager

FlagsNext ==
    \/ \E p \in DOMAIN store, k \in {KA, KB}, val \in SessionValues, io \in IO :
          SessionChange(p, k, val, io)
    \/ \E io \in IO : SessionSaveCall(io)
    \/ \E io \in IO : SessionLoadCall(io)

SpecFlags == FlagsInit /\ [][FlagsNext]_vars

\* the settings as load() stores them, before any pass of sanitize_settings
Loaded == [Session EXCEPT !.store = Read(Session, "ok").doc, !.shared = {}]

\* C29: a save() that returns has run sanitize_settings before writing
\* exactly when the flag of sanitizing on save is set, and a load() that
\* returns has run it after reading exactly when the flag of sanitizing on
\* load is set.
C29_FlagsDecideSanitizing ==
    [][/\ (session_last'.op = "save" /\ session_last'.err = NoError) =>
              store' = IF auto_sanitize_on_save THEN SessionSanitize(Session).store
                       ELSE store
       /\ (session_last'.op = "load" /\ session_last'.err = NoError) =>
              store' = IF auto_sanitize_on_load THEN SessionSanitize(Loaded).store
                       ELSE Loaded.store]_vars

----------------------------------------------------------------------------
(* Saving and constructing again.                                          *)

\* the values a section's key is changed to: a str and the int 1
RoundTripValues == {Leaf("v2"), Leaf("int:1")}

\* settings.<section>.<key> = value
RoundTripChange(p, k, val, io) ==
    /\ <<p, k>> \in Settable
    /\ p # <<>>
    /\ SessionBecomes(SessionSet(Session, p, k, val, io), "set", FALSE)

RoundTripNext ==
    \/ \E p \in DOMAIN store, k \in {KA, KB}, val \in RoundTripValues, io \in IO :
          RoundTripChange(p, k, val, io)
    \/ \E io \in IO : SessionSaveCall(io)
    \/ \E io \in IO : SessionLoadCall(io)

SpecRoundTrip == SessionInit /\ [][RoundTripNext]_vars

\* the values of the settings that the defaults have a place for
Kept(tree) ==
    {p \in DOMAIN tree : tree[p].t = "scalar" /\ p \in DOMAIN default_settings_as_dict}

\* C30: when a save() called after a change of the settings has returned,
\* every value the settings held at a place of the defaults is still held,
\* and a session constructed then on the file loads the settings as they are
\* in memory.
C30_SavedChangeIsLoadedAgain ==
    /\ [][(session_last'.op = "save" /\ session_last'.err = NoError) =>
             \A p \in Kept(store) : p \in DOMAIN store' /\ store'[p] = store[p]]_vars
    /\ []((session_last.op = "save" /\ session_last.err = NoError) =>
             (Reopened.err = NoError /\ Reopened.store = store))

----------------------------------------------------------------------------
(* Keys the defaults do not have, and save().                              *)

\* settings.<section>.<key> = value for a key the section does not have
PersistChange(p, k, val, io) ==
    /\ Len(p) = 1
    /\ store[p].t = "dict"
    /\ ~HasKey(store, p, k)
    /\ SessionBecomes(SessionSet(Session, p, k, val, io), "set", FALSE)

PersistNext ==
    \/ \E p \in DOMAIN store, io \in IO : PersistChange(p, KB, Leaf("v2"), io)
    \/ \E io \in IO : SessionSaveCall(io)
    \/ \E io \in IO : SessionLoadCall(io)

SpecPersist == SessionInit /\ [][PersistNext]_vars

\* the default settings the constructor was given
GivenDefaults == CHOOSE d \in SessionDefaults : TRUE

\* C31: with _auto_sanitize set, when save() has returned, the file holds
\* under no section of the defaults a key that the defaults given to the
\* constructor do not have there.
C31_UnknownNestedKeyNotPersisted ==
    (session_last.op = "save" /\ session_last.err = NoError /\ auto_sanitize) =>
        \A p \in DOMAIN disk :
            (/\ Len(p) = 2
             /\ <<p[1]>> \in DOMAIN GivenDefaults
             /\ GivenDefaults[<<p[1]>>].t = "dict") => p \in DOMAIN GivenDefaults

----------------------------------------------------------------------------
(* The flat sanitize and the mapping interface of settings_manager.py.     *)

\* the default_settings argument of the constructor
GivenDefaultSettings == CHOOSE d \in DefaultSettings : TRUE

\* C32: when SettingsManager.sanitize_settings returns, the top-level keys of
\* the data are the top-level keys of the default settings the manager was
\* constructed with; a key both had keeps the value the data had, and a key
\* the data lacked has the default's value.
C32_SanitizeReconcilesTopLevelKeys ==
    [][(sm_last'.op = "sanitize_settings" /\ sm_class = "SettingsManager") =>
           /\ Range(sm_data'[<<>>].ks) = Range(GivenDefaultSettings[<<>>].ks)
           /\ \A k \in Range(GivenDefaultSettings[<<>>].ks) :
                  Subtree(sm_data', <<k>>) =
                      IF HasKey(sm_data, <<>>, k) THEN Subtree(sm_data, <<k>>)
                      ELSE Subtree(GivenDefaultSettings, <<k>>)]_vars

\* C33: on a manager of either class, when m[k] = v returns, m[k] is v; when
\* del m[k] returns, k is no key of the manager and len(m) is one less than
\* it was.
C33_MappingInterface ==
    [][/\ \A k \in ManagerKeys, val \in ManagerValues :
              (ManagerSetItem(k, val) /\ sm_last'.err = NoError) =>
                  /\ HasKey(sm_data', <<>>, k)
                  /\ Subtree(sm_data', <<k>>) = val
       /\ \A k \in ManagerKeys :
              (ManagerDelItem(k) /\ sm_last'.err = NoError) =>
                  /\ ~HasKey(sm_data', <<>>, k)
                  /\ Len(sm_data'[<<>>].ks) = Len(sm_data[<<>>].ks) - 1]_vars

----------------------------------------------------------------------------
(* Saving at exit: the hook of atexit that __init__ registers.             *)

MaxSaves == 3      \* most calls of save() in the life of one process

\* register(self.save) of __init__, which comes before _first_time_load
Register(P, onExit) == IF onExit THEN [P EXCEPT !.hooks = @ + 1] ELSE P

\* __init__ with autosave_on_exit: the hook, then _first_time_load; built
\* tells whether __init__ returned
ExitInit ==
    /\ \E fmt \in Formats, default \in SessionDefaults,
          onDisk \in SessionFiles \cup {NoFile},
          san \in BOOLEAN, onChange \in BOOLEAN, onExit \in BOOLEAN, io \in IO :
         LET blank == [store |-> EmptyDict, defaults |-> default, shared |-> {},
                       format |-> fmt, auto_sanitize |-> san,
                       autosave_on_change |-> onChange,
                       autosave_enabled |-> TRUE, file |-> onDisk,
                       saves |-> 0, io_error |-> "none",
                       err |-> NoError, cause |-> NoError]
             S == ToggleAutosaveOffAfter(
                      FirstTimeLoad(ToggleAutosaveOffBefore(blank), io))
         IN /\ SessionStarts(S, TRUE)
            /\ process = [Register(NoProcess, onExit) EXCEPT
                              !.saves = S.saves, !.built = (S.err = NoError)]
    /\ NoFlags
    /\ block = NoBlock
    /\ construction = NoConstruction
    /\ plan = NoPlan
    /\ san_err = NoError
    /\ passes = 0
    /\ before = [store |-> EmptyDict, defaults |-> EmptyDict]
    /\ NoDotDict
    /\ NoManager

ExitBecomes(S, name, exits) ==
    /\ store' = S.store
    /\ default_settings_as_dict' = S.defaults
    /\ shared' = S.shared
    /\ autosave_enabled' = S.autosave_enabled
    /\ disk' = S.file
    /\ session_last' = Done(S, name, FALSE)
    /\ process' = [process EXCEPT !.saves = @ + S.saves, !.exited = exits]
    /\ UNCHANGED <<file_format, auto_sanitize, autosave_on_change, construction,
                   block, auto_sanitize_on_load, auto_sanitize_on_save>>
    /\ UNCHANGED <<plan, san_err, passes, before, dotdictVars, managerVars>>

\* the application changes a setting and saves nothing itself
ExitChange(p, k, val, io) ==
    /\ process.built
    /\ ~process.exited
    /\ process.saves < MaxSaves
    /\ <<p, k>> \in Settable
    /\ p # <<>>
    /\ ExitBecomes(SessionSet(Session, p, k, val, io), "set", FALSE)

\* the interpreter exits: atexit calls every hook it holds, here save() of
\* the object register was given, whether or not its __init__ returned
RunExitFuncs(io) ==
    /\ ~process.exited
    /\ ExitBecomes(IF process.hooks > 0 THEN SessionSave(Session, io) ELSE Session,
                   "atexit", TRUE)

ExitNext ==
    \/ \E pk \in Settable, val \in SessionValues, io \in IO :
           ExitChange(pk[1], pk[2], val, io)
    \/ \E io \in IO : RunExitFuncs(io)

SpecExit == ExitInit /\ [][ExitNext]_vars

\* C34: a session constructed with autosave_on_exit, whose changes save
\* nothing, has had save() called exactly once when the exit handlers have
\* run, and when that save raised nothing the file holds the settings of
\* the memory.
C34_SavedOnceAtExit ==
    (process.exited /\ process.built /\ process.hooks > 0 /\ ~autosave_on_change) =>
        /\ process.saves = 1
        /\ session_last.err = NoError => disk = Encode(file_format, store)

\* C39: when __init__ has raised, atexit holds no save hook of the object
\* that was being constructed.
C39_FailedConstructionLeavesNoHook ==
    ~process.built => process.hooks = 0

----------------------------------------------------------------------------
(* save() under autosave: the sanitize pass of save() and the notifier.    *)

\* save() sanitizes and a change of the settings is saved
SanitizingAutosave == auto_sanitize /\ autosave_on_change /\ autosave_enabled

----------------------------------------------------------------------------
(* The plan of sanitize_settings and the entries it was computed for.      *)

\* the dicts _sanitize_settings visits: the root, and every dict that sits in
\* a visited dict under a key at which the defaults have a dict too
Visited(p) ==
    \A n \in 0..Len(p) :
        LET q == SubSeq(p, 1, n)
        IN /\ q \in (DOMAIN before.store) \cap (DOMAIN before.defaults)
           /\ before.store[q].t = "dict"
           /\ before.defaults[q].t = "dict"

\* the entries found absent from the defaults, and the entries of the
\* defaults found missing, each as the path of keys that leads to it
FoundAbsent ==
    {q \in (DOMAIN before.store) \ (DOMAIN before.defaults) :
         q # <<>> /\ Visited(SubSeq(q, 1, Len(q) - 1))}
FoundMissing ==
    {q \in (DOMAIN before.defaults) \ (DOMAIN before.store) :
         q # <<>> /\ Visited(SubSeq(q, 1, Len(q) - 1))}

\* C37: when sanitize_settings has returned, every entry found absent from
\* the defaults is gone, every entry found missing is there, and every other
\* entry the settings had is where it was, with the value it had.
C37_PlanTouchesItsOwnEntries ==
    Sanitized =>
        /\ \A q \in FoundAbsent : q \notin DOMAIN store
        /\ \A q \in FoundMissing : q \in DOMAIN store
        /\ \A q \in DOMAIN before.store :
               (\A r \in FoundAbsent : ~IsPrefix(r, q)) =>
                   /\ q \in DOMAIN store
                   /\ store[q].t = before.store[q].t
                   /\ store[q].v = before.store[q].v

----------------------------------------------------------------------------
(* The operations a list view and a set view inherit from list and set.    *)
(* ListWrapper overrides append, extend, insert, remove, pop, __setitem__  *)
(* and __delitem__, SetWrapper add, remove, discard, pop and clear; every  *)
(* other method is the one of list or of set.                              *)

Reversed(s) == [n \in DOMAIN s |-> s[Len(s) + 1 - n]]

\* list.reverse on the wrapper
ListReverse(tree, ld, p) ==
    [data |-> [tree EXCEPT ![p].ks = Reversed(@)], err |-> NoError,
     calls |-> <<>>, ld |-> ld]

\* set.update({v}) on the wrapper, and wrapper |= {v}
SetUpdate(tree, ld, p, v) ==
    [data |-> IF <<v>> \in Range(tree[p].ks) THEN tree
              ELSE [Graft(tree, p \o <<(<<v>>)>>, Leaf(v)) EXCEPT
                        ![p].ks = Append(@, <<v>>)],
     err |-> NoError, calls |-> <<>>, ld |-> ld]

CallListReverse(p) ==
    /\ data[p].t = "ListWrapper"
    /\ ViewBecomes(ListReverse(data, list_data, p), "reverse", p, NoKey, NoCallback)

CallSetUpdate(p, v) ==
    /\ data[p].t = "SetWrapper"
    /\ ViewBecomes(SetUpdate(data, list_data, p, v), "update", p, NoKey, NoCallback)

\* the values stored to get a list view and a set view
InPlaceValues == {EmptyList, SetOf("v1")}

InPlaceNext ==
    \/ \E k \in Keys, val \in InPlaceValues : ViewSetItem(<<>>, k, val)
    \/ \E p \in DOMAIN data, item \in ViewItems : ListAppend(p, item)
    \/ \E p \in DOMAIN data : ListPop(p)
    \/ \E p \in DOMAIN data : CallListReverse(p)
    \/ \E p \in DOMAIN data, v \in Range(ViewScalars) : SetAdd(p, v)
    \/ \E p \in DOMAIN data, v \in Range(ViewScalars) : SetDiscard(p, v)
    \/ \E p \in DOMAIN data, v \in Range(ViewScalars) : CallSetUpdate(p, v)
    \/ \E cb \in Callbacks : ViewAddCallback(cb)

SpecInPlace == ViewsInit /\ [][InPlaceNext]_vars

\* the operations of a list view and of a set view
ViewOperations == {"append", "pop", "reverse", "add", "discard", "update"}

\* C36: an operation on a list view or a set view that changed the view has
\* invoked every callback of the view exactly once, and one that raised has
\* invoked none.
C36_ViewChangeInvokesEachOnce ==
    [][last'.op \in ViewOperations =>
           /\ (last'.err = NoError /\ data' # data) =>
                  \A cb \in Range(CallbacksOf(data', last'.p)) :
                      Cardinality({n \in DOMAIN calls' : calls'[n].cb = cb}) = 1
           /\ last'.err # NoError => calls' = <<>>]_vars

----------------------------------------------------------------------------
(* A callback that raises.  _notify calls the callbacks in a plain for     *)
(* loop, after the mutation: an exception of a callback leaves the loop    *)
(* and the mutating method.                                                *)

MaxRaisingNodes == 2   \* most objects below the root while a callback raises

\* the callbacks that raise when they are called
Raises == {"cb1"}

\* the calls _notify makes of the calls it would make with no callback
\* raising: up to and with the first callback that raises
Interrupted(cs) ==
    LET raisers == {n \in DOMAIN cs : cs[n].cb \in Raises}
    IN IF raisers = {} THEN cs
       ELSE SubSeq(cs, 1, CHOOSE n \in raisers : \A m \in raisers : n <= m)

\* the outcome r of a mutating method whose notification is undone: the tree
\* is put back as it was when a callback raised
NotifyRollingBack(tree, r) ==
    IF r.err # NoError \/ Interrupted(r.calls) = r.calls
    THEN [data |-> r.data, err |-> r.err, calls |-> r.calls, ld |-> <<>>]
    ELSE [data |-> tree, err |-> "CallbackError",
          calls |-> Interrupted(r.calls), ld |-> <<>>]

\* the outcome r of a mutating method on tree, with _notify as it is: the
\* mutation is made, then the callbacks run until one raises
NotifyRaising(tree, r) ==
    IF r.err # NoError \/ Interrupted(r.calls) = r.calls
    THEN [data |-> r.data, err |-> r.err, calls |-> r.calls, ld |-> <<>>]
    ELSE [data |-> r.data, err |-> "CallbackError",
          calls |-> Interrupted(r.calls), ld |-> <<>>]

RaisingValues == {Leaf("v1"), EmptyDict}

RaisingSetItem(p, k, val) ==
    /\ data[p].t \in MappingViews
    /\ Size(DictWrapperSet(data, p, k, val).data) <= MaxRaisingNodes
    /\ ViewBecomes(NotifyRaising(data, DictWrapperSet(data, p, k, val)),
                   "set", p, k, NoCallback)

RaisingDelItem(p, k) ==
    /\ data[p].t \in MappingViews
    /\ ViewBecomes(NotifyRaising(data, DictWrapperDel(data, p, k)),
                   "del", p, k, NoCallback)

RaisingNext ==
    \/ \E p \in DOMAIN data, k \in Keys, val \in RaisingValues : RaisingSetItem(p, k, val)
    \/ \E p \in DOMAIN data, k \in Keys : RaisingDelItem(p, k)
    \/ \E cb \in Callbacks : ViewAddCallback(cb)

SpecRaising == ViewsInit /\ [][RaisingNext]_vars

\* C38: when a set or a delete on a mapping view is left by the exception of
\* a callback, the item is stored with the value given, or is deleted; the
\* calls made are the callback list of the view from its start up to the
\* first callback that raises, in order, that one last and none after it.
C38_RaisingCallbackStopsNotification ==
    /\ [][/\ \A p \in DOMAIN data, k \in Keys, val \in RaisingValues :
                 (RaisingSetItem(p, k, val) /\ last'.err = "CallbackError") =>
                     /\ HasKey(data', p, k)
                     /\ Contents(data', p \o <<k>>, TRUE) = Contents(val, <<>>, TRUE)
          /\ \A p \in DOMAIN data, k \in Keys :
                 (RaisingDelItem(p, k) /\ last'.err = "CallbackError") =>
                     ~HasKey(data', p, k)]_vars
    /\ [](last.err = "CallbackError" =>
             /\ calls # <<>>
             /\ calls[Len(calls)].cb \in Raises
             /\ Len(calls) <= Len(CallbacksOf(data, last.p))
             /\ \A n \in DOMAIN calls :
                    /\ calls[n].cb = CallbacksOf(data, last.p)[n]
                    /\ n < Len(calls) => calls[n].cb \notin Raises)

\* a set was left by the exception of the first of two callbacks: the item
\* is stored and the second callback was not invoked
C38_Witness ==
    /\ last.op = "set"
    /\ last.err = "CallbackError"
    /\ Registered = <<"cb1", "cb2">>
    /\ Callers = <<"cb1">>
    /\ HasKey(data, last.p, last.k)

=============================================================================
